---------------------------- MODULE Spec2Model ----------------------------
(***************************************************************************)
(* The SVG emoji bundlers: the hand-written text optimizers                *)
(* (ultraOptimizeSVG, optimizeSVG, the cleaning of the UTF-8 bundler) and  *)
(* the data-URI encoders that follow them.                                 *)
(*                                                                         *)
(* A JavaScript string is a sequence of one-character strings.  Every      *)
(* String.prototype.replace(/re/g, ...) of the source is an operator that  *)
(* scans the text from left to right, as the regular expression engine     *)
(* does: at each position a matcher gives the index just after the         *)
(* leftmost match starting there (0: no match), the match is replaced and  *)
(* the scan goes on after it.                                              *)
(***************************************************************************)
EXTENDS Integers, Sequences, FiniteSets, TLC

VARIABLES
    variant,     \* which program runs: "utf8", "ultra" or "fixed" (the
                 \* bundlers), "svgo" (optimize-svgs.js) or "sprite"
    svgContent,  \* the text handed to the optimizer
    optimized,   \* the optimizer's result, handed to the escaping step
    dataUri,     \* the data URI built from it
    passes,      \* how many times the optimizer has run on this text
    pc,          \* "read", "optimized" or "encoded" ("idle": no text in hand)
    dirState,    \* the input directory: "noarg", "missing", "file" or "dir"
    dirEntries,  \* the names fs.readdirSync finds in it
    contents,    \* the text of each of them
    unreadable,  \* the names whose read throws
    batchSize,   \* BATCH_SIZE
    files,       \* the selected file names, in the order they are processed
    batchStart,  \* i, the index where the current batch starts
    batchPos,    \* the index of the current file in its batch
    emojiData,   \* the object's own properties <<key, value>>, as created
    processed,   \* stats.processed
    errors,      \* stats.errors
    attempted,   \* the files handed to the read, in order
    written,     \* the output exists (file or output directory)
    outputEntries, \* Object.entries(emojiData) as the output file lists them
    symbols,     \* the sprite builder's <symbol> texts, in order
    exitCode,    \* the exit status; -1 while the process runs
    at,          \* the position in the main function
    asked,       \* the argument of the last getEmojiDataUrl call
    answer,      \* and what it returned (<<>>: null, else <<data URI>>)
    generated,   \* the entries of window.EMOJI_DATA = {...} as the output file spells them
    loaded       \* the entries EMOJI_DATA has once a page has run the output file

\* the state of one svgToDataUri call
pipeline == <<variant, svgContent, optimized, dataUri, passes, pc>>

\* the state of one run of a program over a directory
bundle ==
    <<dirState, dirEntries, contents, unreadable, batchSize, files, batchStart, batchPos,
      emojiData,
      processed, errors, attempted, written, outputEntries, symbols,
      exitCode, at, asked, answer, generated, loaded>>

vars == <<pipeline, bundle>>

\* no directory run is under way
BundleIdle ==
    /\ dirState = "dir"
    /\ dirEntries = {}
    /\ contents = <<>>
    /\ unreadable = {}
    /\ batchSize = 1
    /\ files = <<>>
    /\ batchStart = 0
    /\ batchPos = 0
    /\ emojiData = <<>>
    /\ processed = 0
    /\ errors = 0
    /\ attempted = <<>>
    /\ written = FALSE
    /\ outputEntries = <<>>
    /\ symbols = <<>>
    /\ exitCode = -1
    /\ at = "idle"
    /\ asked = <<>>
    /\ answer = <<>>
    /\ generated = <<>>
    /\ loaded = <<>>

-----------------------------------------------------------------------------
(* Character classes of the regular expressions.                           *)

\* \s (the white space of the modelled alphabet)
IsWs(c) == c \in {" ", "\n", "\t", "\r"}

\* . matches every character but a line terminator
IsLineTerminator(c) == c \in {"\n", "\r"}

\* characters that a string of this notation cannot spell, each under its
\* code point
Backtick == "U+0060"

Backspace == "U+0008"

VerticalTab == "U+000B"

Nul == "U+0000"

\* \d
IsDigit(c) == c \in {"0", "1", "2", "3", "4", "5", "6", "7", "8", "9"}

\* [0-9a-f] under the i flag
IsHexDigit(c) ==
    IsDigit(c) \/ c \in {"a", "b", "c", "d", "e", "f", "A", "B", "C", "D", "E", "F"}

\* [MLHVCSQTAZmlhvcsqtaz]
IsPathCommand(c) ==
    c \in {"M", "L", "H", "V", "C", "S", "Q", "T", "A", "Z",
           "m", "l", "h", "v", "c", "s", "q", "t", "a", "z"}

\* canonical lower case, as the i flag compares letters
ToLower(c) ==
    CASE c = "A" -> "a" [] c = "B" -> "b" [] c = "C" -> "c" [] c = "D" -> "d"
      [] c = "E" -> "e" [] c = "F" -> "f" [] c = "G" -> "g" [] c = "H" -> "h"
      [] c = "I" -> "i" [] c = "J" -> "j" [] c = "K" -> "k" [] c = "L" -> "l"
      [] c = "M" -> "m" [] c = "N" -> "n" [] c = "O" -> "o" [] c = "P" -> "p"
      [] c = "Q" -> "q" [] c = "R" -> "r" [] c = "S" -> "s" [] c = "T" -> "t"
      [] c = "U" -> "u" [] c = "V" -> "v" [] c = "W" -> "w" [] c = "X" -> "x"
      [] c = "Y" -> "y" [] c = "Z" -> "z"
      [] OTHER -> c

-----------------------------------------------------------------------------
(* Scanning helpers.                                                       *)

SetMin(S) == CHOOSE k \in S : \A m \in S : k <= m

\* the literal p stands in s at index i
HasAt(s, i, p) ==
    /\ i >= 1
    /\ i + Len(p) - 1 <= Len(s)
    /\ \A k \in 1..Len(p) : s[i + k - 1] = p[k]

\* the same under the i flag (p is given in lower case)
HasAtCI(s, i, p) ==
    /\ i >= 1
    /\ i + Len(p) - 1 <= Len(s)
    /\ \A k \in 1..Len(p) : ToLower(s[i + k - 1]) = p[k]

\* index of the first occurrence of p in s at or after from; 0 when none
IndexOf(s, p, from) ==
    LET c == {k \in from..(Len(s) - Len(p) + 1) : HasAt(s, k, p)}
    IN  IF c = {} THEN 0 ELSE SetMin(c)

IndexOfCI(s, p, from) ==
    LET c == {k \in from..(Len(s) - Len(p) + 1) : HasAtCI(s, k, p)}
    IN  IF c = {} THEN 0 ELSE SetMin(c)

\* \s* from i: the index of the first character at or after i that is not
\* white space (Len(s) + 1 at the end of the text)
SkipWs(s, i) ==
    IF i <= Len(s) /\ ~IsWs(s[i]) THEN i
    ELSE LET c == {k \in i..Len(s) : ~IsWs(s[k])}
         IN  IF c = {} THEN Len(s) + 1 ELSE SetMin(c)

\* \d* from i
SkipDigits(s, i) ==
    IF i <= Len(s) /\ ~IsDigit(s[i]) THEN i
    ELSE LET c == {k \in i..Len(s) : ~IsDigit(s[k])}
         IN  IF c = {} THEN Len(s) + 1 ELSE SetMin(c)

\* .*?" from i: the index of the first double quote at or after i with no
\* line terminator before it; 0 when none
LazyToQuote(s, i) ==
    LET q == IndexOf(s, <<"\"">>, i)
    IN  IF q = 0 \/ \E k \in i..(q - 1) : IsLineTerminator(s[k]) THEN 0 ELSE q

\* s.replace(/re/g, rep): M(s, i) is the index after the match of re that
\* starts at i (0: none), R(s, i, j) the replacement of the match s[i..j-1].
\* From i the text is copied up to the leftmost position k where re matches,
\* the match is replaced, and the scan goes on after the match.
ReplaceAll(s, M(_, _), R(_, _, _)) ==
    LET f[i \in 1..(Len(s) + 1)] ==
            LET c == {k \in i..Len(s) : M(s, k) # 0}
            IN  IF c = {} THEN SubSeq(s, i, Len(s))
                ELSE LET k == SetMin(c)
                         j == M(s, k)
                     IN  SubSeq(s, i, k - 1) \o R(s, k, j) \o f[j]
    IN  f[1]

\* the replacement '' (the match is removed)
Drop(s, i, j) == <<>>

\* String.prototype.trim
Trim(s) ==
    LET c == {k \in 1..Len(s) : ~IsWs(s[k])}
    IN  IF c = {} THEN <<>>
        ELSE SubSeq(s, SetMin(c), CHOOSE k \in c : \A m \in c : m <= k)


-----------------------------------------------------------------------------
(* The literals of the regular expressions.                                *)

LitXmlDecl == <<"<", "?", "x", "m", "l">>
LitCommentOpen == <<"<", "!", "-", "-">>
LitCommentClose == <<"-", "-", ">">>
LitMetadataOpen == <<"<", "m", "e", "t", "a", "d", "a", "t", "a">>
LitMetadataClose == <<"<", "/", "m", "e", "t", "a", "d", "a", "t", "a", ">">>
LitTitleOpen == <<"<", "t", "i", "t", "l", "e">>
LitTitleClose == <<"<", "/", "t", "i", "t", "l", "e", ">">>
LitDescOpen == <<"<", "d", "e", "s", "c">>
LitDescClose == <<"<", "/", "d", "e", "s", "c", ">">>
LitXmlns == <<"x", "m", "l", "n", "s", ":">>
LitEqQuote == <<"=", "\"">>
LitXmlSpace == <<"x", "m", "l", ":", "s", "p", "a", "c", "e", "=", "\"">>
LitDataName == <<"d", "a", "t", "a", "-", "n", "a", "m", "e", "=", "\"">>
LitId == <<"i", "d", "=", "\"">>
LitRgb == <<"r", "g", "b", "(">>
LitFillRule == <<"f", "i", "l", "l", "-", "r", "u", "l", "e", "=", "\"", "n", "o", "n", "z", "e", "r", "o", "\"">>
LitFillOpacity == <<"f", "i", "l", "l", "-", "o", "p", "a", "c", "i", "t", "y", "=", "\"", "1", "\"">>
LitStrokeOpacity == <<"s", "t", "r", "o", "k", "e", "-", "o", "p", "a", "c", "i", "t", "y", "=", "\"", "1", "\"">>
LitOpacity == <<"o", "p", "a", "c", "i", "t", "y", "=", "\"", "1", "\"">>
LitVersion == <<"v", "e", "r", "s", "i", "o", "n", "=", "'">>
LitTranslate == <<"t", "r", "a", "n", "s", "f", "o", "r", "m", "=", "'", "t", "r", "a", "n", "s", "l", "a", "t", "e", "(", "0">>
LitTranslateClose == <<")", "'">>
LitGOpen == <<"<", "g">>
LitGClose == <<"<", "/", "g", ">">>

-----------------------------------------------------------------------------
(* Matchers shared by the optimizers.                                      *)

\* /<\?xml[^>]*\?>/ : [^>]* stops before the first '>', which must follow '?'
MatchXmlDecl(s, i) ==
    IF ~HasAt(s, i, LitXmlDecl) THEN 0
    ELSE LET g == IndexOf(s, <<">">>, i + 5)
         IN  IF g # 0 /\ g - 1 >= i + 5 /\ s[g - 1] = "?" THEN g + 1 ELSE 0

\* /<!--[\s\S]*?-->/ : up to the first '-->' after the opening
MatchComment(s, i) ==
    IF ~HasAt(s, i, LitCommentOpen) THEN 0
    ELSE LET k == IndexOf(s, LitCommentClose, i + 4)
         IN  IF k = 0 THEN 0 ELSE k + 3

\* /<name[\s\S]*?<\/name>/i : from the opening literal to the first closing
\* tag after it
MatchElement(s, i, open, close) ==
    IF ~HasAtCI(s, i, open) THEN 0
    ELSE LET k == IndexOfCI(s, close, i + Len(open))
         IN  IF k = 0 THEN 0 ELSE k + Len(close)

MatchMetadata(s, i) == MatchElement(s, i, LitMetadataOpen, LitMetadataClose)

MatchTitle(s, i) == MatchElement(s, i, LitTitleOpen, LitTitleClose)

MatchDesc(s, i) == MatchElement(s, i, LitDescOpen, LitDescClose)

\* /\s*lit/ for a literal: white space, then the literal
MatchWsLit(s, i, lit) ==
    LET w == SkipWs(s, i)
    IN  IF HasAt(s, w, lit) THEN w + Len(lit) ELSE 0

\* /(\d+\.\d{3,})/ : digits, a point, three or more digits
MatchDecimal(s, i) ==
    IF i > Len(s) \/ ~IsDigit(s[i]) THEN 0
    ELSE LET a == SkipDigits(s, i)
         IN  IF a > Len(s) \/ s[a] # "." THEN 0
             ELSE LET b == SkipDigits(s, a + 1)
                  IN  IF b - (a + 1) >= 3 THEN b ELSE 0

\* /\s+/
MatchWsRun(s, i) == IF IsWs(s[i]) THEN SkipWs(s, i) ELSE 0

ToSpace(s, i, j) == <<" ">>

\* />\s+</
MatchBetweenTags(s, i) ==
    IF s[i] # ">" \/ i + 1 > Len(s) \/ ~IsWs(s[i + 1]) THEN 0
    ELSE LET e == SkipWs(s, i + 1)
         IN  IF e <= Len(s) /\ s[e] = "<" THEN e + 1 ELSE 0

ToTagPair(s, i, j) == <<">", "<">>

\* /\s*=\s*/
MatchEquals(s, i) ==
    LET w == SkipWs(s, i)
    IN  IF w <= Len(s) /\ s[w] = "=" THEN SkipWs(s, w + 1) ELSE 0

ToEquals(s, i, j) == <<"=">>


-----------------------------------------------------------------------------
(* Numbers: parseFloat(match).toFixed(PRECISION) and parseInt(x).toString(16) *)

PRECISION == 2

DigitChars == <<"0", "1", "2", "3", "4", "5", "6", "7", "8", "9">>

HexChars ==
    <<"0", "1", "2", "3", "4", "5", "6", "7", "8", "9", "a", "b", "c", "d", "e", "f">>

DigitVal(c) == (CHOOSE d \in 1..10 : DigitChars[d] = c) - 1

\* the value of a run of decimal digits (parseInt of /\d+/)
RECURSIVE DecVal(_)
DecVal(ds) ==
    IF ds = <<>> THEN 0
    ELSE 10 * DecVal(SubSeq(ds, 1, Len(ds) - 1)) + DigitVal(ds[Len(ds)])

\* Number.prototype.toString(10) of a natural number
RECURSIVE DecStr(_)
DecStr(n) == IF n < 10 THEN <<DigitChars[n + 1]>>
             ELSE DecStr(n \div 10) \o <<DigitChars[(n % 10) + 1]>>

\* Number.prototype.toString(16) of a natural number
RECURSIVE HexStr(_)
HexStr(n) == IF n < 16 THEN <<HexChars[n + 1]>>
             ELSE HexStr(n \div 16) \o <<HexChars[(n % 16) + 1]>>

\* String.prototype.padStart(2, '0')
PadStart2(s) == IF Len(s) < 2 THEN <<"0">> \o s ELSE s

RECURSIVE Pow10(_)
Pow10(k) == IF k = 0 THEN 1 ELSE 10 * Pow10(k - 1)

RECURSIVE Pow2Mod(_, _)
Pow2Mod(e, m) ==
    IF e = 0 THEN 1 % m
    ELSE LET h == Pow2Mod(e \div 2, m)
         IN  IF e % 2 = 0 THEN (h * h) % m ELSE (2 * h * h) % m

\* the binary exponent k of n / 10^p: 2^k <= n / 10^p < 2^(k+1), for n > 0
RECURSIVE Log2Up(_, _, _)
Log2Up(n, d, k) == IF 2 * d > n THEN k ELSE Log2Up(n, 2 * d, k + 1)

RECURSIVE Log2Down(_, _, _)
Log2Down(n, d, k) == IF n >= d THEN k ELSE Log2Down(2 * n, d, k - 1)

BinaryExponent(n, d) == IF n >= d THEN Log2Up(n, d, 0) ELSE Log2Down(n, d, 0)

\* parseFloat of a literal n / d (d = 10^(PRECISION+1), n ending in 5) that
\* lies exactly half way between two multiples of 10^-PRECISION.  The IEEE-754
\* double that parseFloat returns is m * 2^-e with m = round(n * 2^e / d) and
\* e = 52 - BinaryExponent: it is the literal's value itself when the
\* remainder r of n * 2^e by d is 0, below it when r < d / 2 and above it when
\* r > d / 2.  toFixed takes the nearest multiple of 10^-PRECISION and, of two
\* equally near, the larger: the half rounds up unless the double is below it.
HalfRoundsUp(n, d) ==
    LET e == 52 - BinaryExponent(n, d)
        r == ((n % d) * Pow2Mod(e, d)) % d
    IN  r = 0 \/ 2 * r > d

\* toFixed without the zeros that pad the fraction to PRECISION digits
ToFixedUnpadded(ip, fp) ==
    LET unit == Pow10(PRECISION)
        kept == DecVal(ip) * unit + DecVal(SubSeq(fp, 1, PRECISION))
        rest == SubSeq(fp, PRECISION + 1, Len(fp))
        n == kept + (IF 2 * DecVal(rest) >= Pow10(Len(rest)) THEN 1 ELSE 0)
    IN  DecStr(n \div unit) \o <<".">> \o DecStr(n % unit)

\* parseFloat(match).toFixed(PRECISION) for match = ip "." fp, fp of more
\* than PRECISION digits.  Off the half-way case the double is nearer to the
\* literal than the literal is to the half (literals of at most 15 digits),
\* so the digits after the kept ones decide.
ToFixed(ip, fp) ==
    LET unit == Pow10(PRECISION)
        kept == DecVal(ip) * unit + DecVal(SubSeq(fp, 1, PRECISION))
        rest == SubSeq(fp, PRECISION + 1, Len(fp))
        d == Pow10(Len(rest))
        r == DecVal(rest)
        up == IF 2 * r = d THEN HalfRoundsUp(10 * kept + 5, 10 * unit)
                           ELSE 2 * r > d
        n == kept + (IF up THEN 1 ELSE 0)
        frac == DecStr(n % unit)
    IN  DecStr(n \div unit) \o <<".">> \o
        [k \in 1..(PRECISION - Len(frac)) |-> "0"] \o frac

\* (match) => parseFloat(match).toFixed(PRECISION)
RoundMatch(s, i, j) ==
    LET a == SkipDigits(s, i)
    IN  ToFixed(SubSeq(s, i, a - 1), SubSeq(s, a + 1, j - 1))

\* step "Reduce decimal precision" of both optimizers
ReducePrecision(s) == ReplaceAll(s, MatchDecimal, RoundMatch)


-----------------------------------------------------------------------------
(* Colours.                                                                *)

\* /rgb\(\s*(\d+)\s*,\s*(\d+)\s*,\s*(\d+)\s*\)/i : the indices
\* <<r, rEnd, g, gEnd, b, bEnd, end>> of the three digit runs and of the
\* character after the match; <<>> when there is no match at i
RgbParts(s, i) ==
    IF ~HasAtCI(s, i, LitRgb) THEN <<>>
    ELSE LET r  == SkipWs(s, i + 4)
             re == SkipDigits(s, r)
             c1 == SkipWs(s, re)
         IN  IF re = r \/ c1 > Len(s) \/ s[c1] # "," THEN <<>>
             ELSE LET g  == SkipWs(s, c1 + 1)
                      ge == SkipDigits(s, g)
                      c2 == SkipWs(s, ge)
                  IN  IF ge = g \/ c2 > Len(s) \/ s[c2] # "," THEN <<>>
                      ELSE LET b  == SkipWs(s, c2 + 1)
                               be == SkipDigits(s, b)
                               c3 == SkipWs(s, be)
                           IN  IF be = b \/ c3 > Len(s) \/ s[c3] # ")" THEN <<>>
                               ELSE <<r, re, g, ge, b, be, c3 + 1>>

MatchRgb(s, i) == LET p == RgbParts(s, i) IN IF p = <<>> THEN 0 ELSE p[7]

\* x => parseInt(x).toString(16).padStart(2, '0')
ChannelHex(ds) == PadStart2(HexStr(DecVal(ds)))

\* (match, r, g, b) => '#' + [r, g, b].map(...).join('')
RgbToHex(s, i, j) ==
    LET p == RgbParts(s, i)
    IN  <<"#">> \o ChannelHex(SubSeq(s, p[1], p[2] - 1))
               \o ChannelHex(SubSeq(s, p[3], p[4] - 1))
               \o ChannelHex(SubSeq(s, p[5], p[6] - 1))

\* /#([0-9a-f])\1([0-9a-f])\2([0-9a-f])\3/i
MatchPairedHex(s, i) ==
    IF /\ s[i] = "#"
       /\ i + 6 <= Len(s)
       /\ \A k \in {1, 3, 5} : /\ IsHexDigit(s[i + k])
                               /\ ToLower(s[i + k + 1]) = ToLower(s[i + k])
    THEN i + 7 ELSE 0

\* '#$1$2$3' taken as the first three digits instead of the three groups
ShortHexFirstThree(s, i, j) == <<"#", s[i + 1], s[i + 2], s[i + 3]>>

\* '#$1$2$3'
ShortHex(s, i, j) == <<"#", s[i + 1], s[i + 3], s[i + 5]>>

\* step "Optimize colors" of both optimizers
OptimizeColors(s) ==
    ReplaceAll(ReplaceAll(s, MatchRgb, RgbToHex), MatchPairedHex, ShortHex)


-----------------------------------------------------------------------------
(* ultraOptimizeSVG: the optimizer of the "ultra" bundler.                 *)

AGGRESSIVE_OPTIMIZE == TRUE

\* 1. Remove XML declaration and comments
RemoveDeclAndComments(s) ==
    ReplaceAll(ReplaceAll(s, MatchXmlDecl, Drop), MatchComment, Drop)

\* 2. Remove metadata, title, desc tags
RemoveDescriptive(s) ==
    ReplaceAll(ReplaceAll(ReplaceAll(s, MatchMetadata, Drop),
                          MatchTitle, Drop),
               MatchDesc, Drop)

\* /\s*xmlns:.*?=".*?"/ : the first '="' after the prefix, then the first
\* double quote after it, neither across a line terminator
MatchXmlnsLazy(s, i) ==
    LET w == MatchWsLit(s, i, LitXmlns)
    IN  IF w = 0 THEN 0
        ELSE LET p == IndexOf(s, LitEqQuote, w)
             IN  IF p = 0 \/ \E k \in w..(p - 1) : IsLineTerminator(s[k]) THEN 0
                 ELSE LET q == LazyToQuote(s, p + 2)
                      IN  IF q = 0 THEN 0 ELSE q + 1

\* /\s*name=".*?"/ for lit = name="
MatchAttrLazy(s, i, lit) ==
    LET w == MatchWsLit(s, i, lit)
    IN  IF w = 0 THEN 0
        ELSE LET q == LazyToQuote(s, w)
             IN  IF q = 0 THEN 0 ELSE q + 1

\* 3. Remove editor-specific attributes
RemoveEditorAttrsUltra(s) ==
    ReplaceAll(
      ReplaceAll(
        ReplaceAll(
          ReplaceAll(s, MatchXmlnsLazy, Drop),
          LAMBDA t, i : MatchAttrLazy(t, i, LitXmlSpace), Drop),
        LAMBDA t, i : MatchAttrLazy(t, i, LitDataName), Drop),
      LAMBDA t, i : MatchAttrLazy(t, i, LitId), Drop)

\* /\s*([MLHVCSQTAZmlhvcsqtaz])\s*/
MatchCommand(s, i) ==
    LET w == SkipWs(s, i)
    IN  IF w <= Len(s) /\ IsPathCommand(s[w]) THEN SkipWs(s, w + 1) ELSE 0

\* '$1'
CommandOnly(s, i, j) == <<s[SkipWs(s, i)]>>

\* 5. Minify path data
MinifyPathData(s) ==
    ReplaceAll(
      ReplaceAll(
        ReplaceAll(
          ReplaceAll(s, MatchCommand, CommandOnly),
          MatchWsRun, ToSpace),
        MatchBetweenTags, ToTagPair),
      MatchEquals, ToEquals)

\* 7. Remove default attribute values
RemoveDefaultsUltra(s) ==
    ReplaceAll(
      ReplaceAll(
        ReplaceAll(
          ReplaceAll(s, LAMBDA t, i : MatchWsLit(t, i, LitFillRule), Drop),
          LAMBDA t, i : MatchWsLit(t, i, LitFillOpacity), Drop),
        LAMBDA t, i : MatchWsLit(t, i, LitStrokeOpacity), Drop),
      LAMBDA t, i : MatchWsLit(t, i, LitOpacity), Drop)

\* 8. Use single quotes: replace(/"/g, "'")
SingleQuotes(s) == [k \in 1..Len(s) |-> IF s[k] = "\"" THEN "'" ELSE s[k]]

\* /\s*version='[^']*'/
MatchVersion(s, i) ==
    LET w == MatchWsLit(s, i, LitVersion)
    IN  IF w = 0 THEN 0
        ELSE LET q == IndexOf(s, <<"'">>, w)
             IN  IF q = 0 THEN 0 ELSE q + 1

\* /transform='translate\(0,?\s*0?\)'/
MatchTranslate(s, i) ==
    IF ~HasAt(s, i, LitTranslate) THEN 0
    ELSE LET a == i + Len(LitTranslate)
             b == IF a <= Len(s) /\ s[a] = "," THEN a + 1 ELSE a
             c == SkipWs(s, b)
             d == IF c <= Len(s) /\ s[c] = "0" THEN c + 1 ELSE c
         IN  IF HasAt(s, d, LitTranslateClose) THEN d + 2 ELSE 0

\* /<g[^>]*>\s*<\/g>/
MatchEmptyGroup(s, i) ==
    IF ~HasAt(s, i, LitGOpen) THEN 0
    ELSE LET g == IndexOf(s, <<">">>, i + 2)
         IN  IF g = 0 THEN 0
             ELSE LET e == SkipWs(s, g + 1)
                  IN  IF HasAt(s, e, LitGClose) THEN e + 4 ELSE 0

\* 10. Aggressive optimization (if enabled)
Aggressive(s) ==
    IF AGGRESSIVE_OPTIMIZE
    THEN ReplaceAll(
           ReplaceAll(
             ReplaceAll(s, MatchVersion, Drop),
             MatchTranslate, Drop),
           MatchEmptyGroup, Drop)
    ELSE s

ultraOptimizeSVG(svg) ==
    Aggressive(
      Trim(
        SingleQuotes(
          RemoveDefaultsUltra(
            OptimizeColors(
              MinifyPathData(
                ReducePrecision(
                  RemoveEditorAttrsUltra(
                    RemoveDescriptive(
                      RemoveDeclAndComments(svg))))))))))

-----------------------------------------------------------------------------
(* optimizeSVG: the optimizer of the "fixed" bundler.                      *)

\* /\s*xmlns:[^=]*="[^"]*"/
MatchXmlnsStrict(s, i) ==
    LET w == MatchWsLit(s, i, LitXmlns)
    IN  IF w = 0 THEN 0
        ELSE LET e == IndexOf(s, <<"=">>, w)
             IN  IF e = 0 \/ ~HasAt(s, e, LitEqQuote) THEN 0
                 ELSE LET q == IndexOf(s, <<"\"">>, e + 2)
                      IN  IF q = 0 THEN 0 ELSE q + 1

\* /\s*name="[^"]*"/ for lit = name="
MatchAttrStrict(s, i, lit) ==
    LET w == MatchWsLit(s, i, lit)
    IN  IF w = 0 THEN 0
        ELSE LET q == IndexOf(s, <<"\"">>, w)
             IN  IF q = 0 THEN 0 ELSE q + 1

\* 1. Remove XML declaration, comments, metadata
RemoveDeclCommentsMetadata(s) == RemoveDescriptive(RemoveDeclAndComments(s))

\* 2. Remove unnecessary namespaces and attributes
RemoveEditorAttrs(s) ==
    ReplaceAll(
      ReplaceAll(
        ReplaceAll(s, MatchXmlnsStrict, Drop),
        LAMBDA t, i : MatchAttrStrict(t, i, LitXmlSpace), Drop),
      LAMBDA t, i : MatchAttrStrict(t, i, LitDataName), Drop)

\* 4. Minify whitespace
MinifyWhitespace(s) ==
    Trim(
      ReplaceAll(
        ReplaceAll(
          ReplaceAll(s, MatchWsRun, ToSpace),
          MatchBetweenTags, ToTagPair),
        MatchEquals, ToEquals))

\* 6. Remove default values
RemoveDefaults(s) ==
    ReplaceAll(
      ReplaceAll(
        ReplaceAll(s, LAMBDA t, i : MatchWsLit(t, i, LitFillOpacity), Drop),
        LAMBDA t, i : MatchWsLit(t, i, LitStrokeOpacity), Drop),
      LAMBDA t, i : MatchWsLit(t, i, LitOpacity), Drop)

optimizeSVG(svg) ==
    RemoveDefaults(
      OptimizeColors(
        MinifyWhitespace(
          ReducePrecision(
            RemoveEditorAttrs(
              RemoveDeclCommentsMetadata(svg))))))


-----------------------------------------------------------------------------
(* The data-URI encoders.                                                  *)

DataUriPrefix == <<"d", "a", "t", "a", ":", "i", "m", "a", "g", "e", "/", "s", "v", "g", "+", "x", "m", "l", ";", "c", "h", "a", "r", "s", "e", "t", "=", "u", "t", "f", "-", "8", ",">>

\* s.replace(/c/g, rep) for a single character c
ReplaceChar(s, c, rep) ==
    ReplaceAll(s, LAMBDA t, i : IF t[i] = c THEN i + 1 ELSE 0,
                  LAMBDA t, i, j : rep)

\* svg_utf8_bundler.js, svgToDataUri: "Clean and optimize SVG"
\* /<!--.*?-->/ : the comment must close before a line terminator
MatchCommentOnLine(s, i) ==
    IF ~HasAt(s, i, LitCommentOpen) THEN 0
    ELSE LET k == IndexOf(s, LitCommentClose, i + 4)
         IN  IF k = 0 \/ \E m \in (i + 4)..(k - 1) : IsLineTerminator(s[m])
             THEN 0 ELSE k + 3

CleanUtf8(svg) ==
    ReplaceAll(
      ReplaceAll(
        ReplaceAll(Trim(svg), MatchWsRun, ToSpace),
        MatchCommentOnLine, Drop),
      MatchBetweenTags, ToTagPair)

\* svg_utf8_bundler.js, svgToDataUri: "URL encode special characters"
EscapeUtf8(s) ==
    ReplaceChar(
      ReplaceChar(
        ReplaceChar(
          ReplaceChar(
            ReplaceChar(s, "#", <<"%", "2", "3">>),
            "\"", <<"'">>),
          "\n", <<"%", "0", "A">>),
        "\r", <<"%", "0", "D">>),
      "%", <<"%", "2", "5">>)

\* the ultra bundler, svgToDataUri: "URL encode only necessary characters"
EscapeUltra(s) ==
    ReplaceAll(
      ReplaceChar(
        ReplaceChar(
          ReplaceChar(
            ReplaceChar(
              ReplaceChar(s, "%", <<"%", "2", "5">>),
              "'", <<"%", "2", "7">>),
            "#", <<"%", "2", "3">>),
          "<", <<"%", "3", "C">>),
        ">", <<"%", "3", "E">>),
      LAMBDA t, i : IF IsWs(t[i]) THEN i + 1 ELSE 0,
      LAMBDA t, i, j : <<"%", "2", "0">>)

\* encodeURIComponent on the modelled (ASCII) alphabet: every character but
\* A-Z a-z 0-9 - _ . ! ~ * ' ( ) becomes % and the two upper-case hex digits
\* of its code
PercentCodes ==
    <<<<"\t", <<"%", "0", "9">>>>,
       <<"\n", <<"%", "0", "A">>>>,
       <<"\r", <<"%", "0", "D">>>>,
       <<" ", <<"%", "2", "0">>>>,
       <<"\"", <<"%", "2", "2">>>>,
       <<"#", <<"%", "2", "3">>>>,
       <<"$", <<"%", "2", "4">>>>,
       <<"%", <<"%", "2", "5">>>>,
       <<"&", <<"%", "2", "6">>>>,
       <<"+", <<"%", "2", "B">>>>,
       <<",", <<"%", "2", "C">>>>,
       <<"/", <<"%", "2", "F">>>>,
       <<":", <<"%", "3", "A">>>>,
       <<";", <<"%", "3", "B">>>>,
       <<"<", <<"%", "3", "C">>>>,
       <<"=", <<"%", "3", "D">>>>,
       <<">", <<"%", "3", "E">>>>,
       <<"?", <<"%", "3", "F">>>>,
       <<"@", <<"%", "4", "0">>>>,
       <<"[", <<"%", "5", "B">>>>,
       <<"\\", <<"%", "5", "C">>>>,
       <<"]", <<"%", "5", "D">>>>,
       <<"^", <<"%", "5", "E">>>>,
       <<Backtick, <<"%", "6", "0">>>>,
       <<"{", <<"%", "7", "B">>>>,
       <<"|", <<"%", "7", "C">>>>,
       <<"}", <<"%", "7", "D">>>>>>

EncodeChar(c) ==
    IF \E k \in 1..Len(PercentCodes) : PercentCodes[k][1] = c
    THEN PercentCodes[CHOOSE k \in 1..Len(PercentCodes) : PercentCodes[k][1] = c][2]
    ELSE <<c>>

encodeURIComponent(s) ==
    ReplaceAll(s, LAMBDA t, i : i + 1, LAMBDA t, i, j : EncodeChar(t[i]))

svgToDataUriUtf8(cleaned) == DataUriPrefix \o EscapeUtf8(cleaned)

svgToDataUriUltra(opt) == DataUriPrefix \o EscapeUltra(opt)

svgToDataUriFixed(opt) == DataUriPrefix \o encodeURIComponent(opt)


-----------------------------------------------------------------------------
(* The bundlers on one file: optimize, then encode; an optimizer's output  *)
(* may be optimized again (the optimizers are exported and chained).       *)

Variants == {"utf8", "ultra", "fixed"}

MaxPasses == 2

MaxTokens == 3

\* every concatenation of at most k texts of T
RECURSIVE Texts(_, _)
Texts(T, k) ==
    IF k = 0 THEN {<<>>}
    ELSE LET shorter == Texts(T, k - 1)
         IN  shorter \cup {p \o x : p \in shorter, x \in T}

InitOn(inputs) ==
    /\ variant \in Variants
    /\ svgContent \in inputs
    /\ optimized = <<>>
    /\ dataUri = <<>>
    /\ passes = 0
    /\ pc = "read"
    /\ BundleIdle

\* svg_utf8_bundler.js, svgToDataUri: the cleaning of the text
OptimizeUtf8 ==
    /\ pc = "read"
    /\ variant = "utf8"
    /\ optimized' = CleanUtf8(svgContent)
    /\ passes' = passes + 1
    /\ pc' = "optimized"
    /\ UNCHANGED <<variant, svgContent, dataUri, bundle>>

\* the ultra bundler, svgToDataUri: const optimized = ultraOptimizeSVG(svgContent)
OptimizeUltra ==
    /\ pc = "read"
    /\ variant = "ultra"
    /\ optimized' = ultraOptimizeSVG(svgContent)
    /\ passes' = passes + 1
    /\ pc' = "optimized"
    /\ UNCHANGED <<variant, svgContent, dataUri, bundle>>

\* ultra_optimized_svg_bundler.js, svgToDataUri: const optimized = optimizeSVG(svgContent)
OptimizeFixed ==
    /\ pc = "read"
    /\ variant = "fixed"
    /\ optimized' = optimizeSVG(svgContent)
    /\ passes' = passes + 1
    /\ pc' = "optimized"
    /\ UNCHANGED <<variant, svgContent, dataUri, bundle>>

\* svg_utf8_bundler.js, svgToDataUri: the escaping and the prefix
EncodeUtf8 ==
    /\ pc = "optimized"
    /\ variant = "utf8"
    /\ dataUri' = svgToDataUriUtf8(optimized)
    /\ pc' = "encoded"
    /\ UNCHANGED <<variant, svgContent, optimized, passes, bundle>>

\* the ultra bundler, svgToDataUri: the escaping and the prefix
EncodeUltra ==
    /\ pc = "optimized"
    /\ variant = "ultra"
    /\ dataUri' = svgToDataUriUltra(optimized)
    /\ pc' = "encoded"
    /\ UNCHANGED <<variant, svgContent, optimized, passes, bundle>>

\* ultra_optimized_svg_bundler.js, svgToDataUri: encodeURIComponent and the prefix
EncodeFixed ==
    /\ pc = "optimized"
    /\ variant = "fixed"
    /\ dataUri' = svgToDataUriFixed(optimized)
    /\ pc' = "encoded"
    /\ UNCHANGED <<variant, svgContent, optimized, passes, bundle>>

\* the optimizer's output is the input of another pass
Chain ==
    /\ pc = "optimized"
    /\ passes < MaxPasses
    /\ svgContent' = optimized
    /\ optimized' = <<>>
    /\ pc' = "read"
    /\ UNCHANGED <<variant, dataUri, passes, bundle>>

Next ==
    \/ OptimizeUtf8
    \/ OptimizeUltra
    \/ OptimizeFixed
    \/ EncodeUtf8
    \/ EncodeUltra
    \/ EncodeFixed
    \/ Chain

-----------------------------------------------------------------------------
(* The files the bundlers read: texts built from a few pieces.             *)

\* SVG documents: pieces of markup
MarkupTokens ==
    { <<"<", "s", "v", "g", " ", "v", "i", "e", "w", "B", "o", "x", "=", "\"", "0", " ", "0", " ", "1", ".", "2", "3", "4", "5", " ", "1", "\"", ">">>,
      <<"<", "/", "s", "v", "g", ">">>,
      <<"<", "g", ">">>,
      <<"<", "/", "g", ">">>,
      <<"<", "t", "i", "t", "l", "e", "/", ">">>,
      <<"<", "t", "i", "t", "l", "e", ">", "a", "<", "/", "t", "i", "t", "l", "e", ">">>,
      <<"<", "p", "a", "t", "h", " ", "d", "=", "\"", "M", "1", ".", "2", "3", "4", "5", ".", "6", "7", "8", "9", "L", "3", " ", "4", "\"", "/", ">">>,
      <<"<", "!", "-", "-", "c", "-", "-", ">">>,
      <<"\n">> }

MarkupTexts == Texts(MarkupTokens, MaxTokens)

\* texts of the characters the encoders escape
EscapeTokens ==
    { <<"%">>,
      <<"#">>,
      <<"'">>,
      <<"\"">>,
      <<"<">>,
      <<">">>,
      <<"a">>,
      <<" ">> }

EscapeTexts == Texts(EscapeTokens, MaxTokens)

\* decimal literals: digits and points
MaxLiteral == 5

NumberTokens == {<<"0">>, <<"5">>, <<"9">>, <<".">>}

NumberTexts == Texts(NumberTokens, MaxLiteral)

\* colours: '#' and pairs of hex digits, and rgb(r,g,b)
MaxPairs == 3

HexPairs ==
    { <<"1", "1">>,
      <<"2", "2">>,
      <<"3", "3">>,
      <<"a", "a">>,
      <<"b", "b">>,
      <<"c", "c">>,
      <<"f", "f">>,
      <<"1", "a">>,
      <<"F", "f">> }

ChannelTexts == {<<"0">>, <<"1", "7">>, <<"2", "5", "5">>, <<"2", "5", "6">>}

Rgb(r, g, b) == LitRgb \o r \o <<",">> \o g \o <<",">> \o b \o <<")">>

ColorTexts ==
    {<<"#">> \o x : x \in Texts(HexPairs, MaxPairs)}
      \cup {Rgb(r, g, b) : r \in ChannelTexts, g \in ChannelTexts, b \in ChannelTexts}

\* tags with the attributes that have their default value
DefaultTokens ==
    { <<"<", "g">>,
      <<"/", ">">>,
      <<" ">> \o LitFillOpacity,
      <<" ">> \o LitStrokeOpacity,
      <<" ">> \o LitOpacity,
      <<" ">> \o LitFillRule,
      <<" ", "o", "p", "a", "c", "i", "t", "y", "=", "'", "1", "'">> }

DefaultTexts == Texts(DefaultTokens, MaxTokens)

\* tags with attributes whose names end in the name a rewrite targets
SuffixTokens ==
    { <<"<", "s", "t", "o", "p">>,
      <<"/", ">">>,
      <<" ", "s", "t", "o", "p", "-">> \o LitOpacity,
      <<" ", "f", "l", "o", "o", "d", "-">> \o LitOpacity,
      <<" ", "d", "a", "t", "a", "-">> \o LitId \o <<"a", "\"">>,
      <<" ">> \o LitOpacity }

SuffixTexts == Texts(SuffixTokens, MaxTokens)

Init == InitOn(MarkupTexts)

InitEscape == InitOn(EscapeTexts)

InitNumbers == InitOn(NumberTexts)

InitColors == InitOn(ColorTexts)

InitDefaults == InitOn(DefaultTexts)

InitSuffix == InitOn(SuffixTexts)

Spec == Init /\ [][Next]_vars

SpecEscape == InitEscape /\ [][Next]_vars

SpecNumbers == InitNumbers /\ [][Next]_vars

SpecColors == InitColors /\ [][Next]_vars

SpecDefaults == InitDefaults /\ [][Next]_vars

SpecSuffix == InitSuffix /\ [][Next]_vars


-----------------------------------------------------------------------------
(* File names, and the object the bundlers fill.                           *)

\* the characters of the file names, in the order of their UTF-16 code units
CodeOrder ==
    <<"$", "'", "-", ".", "/", "0", "1", "2", "3", "4", "5", "6", "7", "8", "9",
      "A", "B", "C", "D", "E", "F", "G", "H", "I", "J", "K", "L", "M",
      "N", "O", "P", "Q", "R", "S", "T", "U", "V", "W", "X", "Y", "Z", "\\", "_",
      Backtick, "a", "b", "c", "d", "e", "f", "g", "h", "i", "j", "k", "l", "m",
      "n", "o", "p", "q", "r", "s", "t", "u", "v", "w", "x", "y", "z">>

CharCode(c) == CHOOSE n \in 1..Len(CodeOrder) : CodeOrder[n] = c

\* a < b as Array.prototype.sort() compares two strings: by code units, a
\* proper prefix first
StringLess(a, b) ==
    \E n \in 1..Len(b) :
        /\ n - 1 <= Len(a)
        /\ \A m \in 1..(n - 1) : a[m] = b[m]
        /\ (n > Len(a) \/ CharCode(a[n]) < CharCode(b[n]))

\* [...S].sort()
Sorted(S) ==
    [r \in 1..Cardinality(S) |->
        CHOOSE x \in S : Cardinality({y \in S : StringLess(y, x)}) = r - 1]

\* String.prototype.toLowerCase
LowerCase(s) == [n \in 1..Len(s) |-> ToLower(s[n])]

\* String.prototype.endsWith
EndsWith(s, suffix) == HasAt(s, Len(s) - Len(suffix) + 1, suffix)

LitDotSvg == <<".", "s", "v", "g">>

LitDotPng == <<".", "p", "n", "g">>

LitSpriteSlash == <<"s", "p", "r", "i", "t", "e", "/">>

\* file => file.toLowerCase().endsWith('.svg')
IsSvgName(file) == EndsWith(LowerCase(file), LitDotSvg)

\* path.basename(file, ext) of a name without directory separators: the
\* extension is removed when the name ends with it, compared as written
basename(file, ext) ==
    IF file = ext THEN <<>>
    ELSE IF EndsWith(file, ext) THEN SubSeq(file, 1, Len(file) - Len(ext))
    ELSE file

LitProto == <<"_", "_", "p", "r", "o", "t", "o", "_", "_">>

\* what obj['__proto__'] reads on an object made by {}: Object.prototype
ObjectPrototype == <<"[", "o", "b", "j", "e", "c", "t", " ", "O", "b", "j", "e", "c", "t", "]">>

\* a property key that is an array index: a canonical numeric string (below
\* 2^32 - 1; here of at most 9 digits)
IsArrayIndex(key) ==
    /\ key # <<>>
    /\ Len(key) <= 9
    /\ \A n \in 1..Len(key) : IsDigit(key[n])
    /\ (Len(key) = 1 \/ key[1] # "0")

\* obj[key] = value, value a string: the setter of __proto__ ignores a value
\* that is no object; a key the object has keeps its place
ObjectSet(obj, key, value) ==
    IF key = LitProto THEN obj
    ELSE IF \E n \in 1..Len(obj) : obj[n][1] = key
    THEN [n \in 1..Len(obj) |-> IF obj[n][1] = key THEN <<key, value>> ELSE obj[n]]
    ELSE Append(obj, <<key, value>>)

\* obj[key]: <<>> for undefined, else <<the value>>
ObjectGet(obj, key) ==
    IF key = LitProto THEN <<ObjectPrototype>>
    ELSE LET at_ == {n \in 1..Len(obj) : obj[n][1] = key}
         IN  IF at_ = {} THEN <<>> ELSE <<obj[CHOOSE n \in at_ : TRUE][2]>>

\* Object.entries(obj): the array-index keys in ascending numeric order, then
\* the other keys in the order of their creation
ObjectEntries(obj) ==
    LET index == {n \in 1..Len(obj) : IsArrayIndex(obj[n][1])}
        nth(r) == CHOOSE n \in index :
                      Cardinality({m \in index :
                                     DecVal(obj[m][1]) < DecVal(obj[n][1])}) = r - 1
        other(e) == ~IsArrayIndex(e[1])
    IN  [r \in 1..Cardinality(index) |-> obj[nth(r)]] \o SelectSeq(obj, other)

\* svgToDataUri(text) of the bundler v
DataUriOf(v, text) ==
    CASE v = "utf8" -> svgToDataUriUtf8(CleanUtf8(text))
      [] v = "ultra" -> svgToDataUriUltra(ultraOptimizeSVG(text))
      [] v = "fixed" -> svgToDataUriFixed(optimizeSVG(text))

\* s.replace(p, ''), p a string: the first occurrence of p is removed
RemoveFirst(s, p) ==
    LET n == IndexOf(s, p, 1)
    IN  IF n = 0 THEN s ELSE SubSeq(s, 1, n - 1) \o SubSeq(s, n + Len(p), Len(s))

\* s.replace(/^p/, '')
RemovePrefix(s, p) == IF HasAt(s, 1, p) THEN SubSeq(s, Len(p) + 1, Len(s)) ELSE s

\* s.replace(/p$/, '')
RemoveSuffix(s, p) == IF EndsWith(s, p) THEN SubSeq(s, 1, Len(s) - Len(p)) ELSE s

\* the key the generated getEmojiDataUrl of the bundler v looks up
LookupKey(v, pathOrKey) ==
    IF v = "utf8"
    THEN RemoveFirst(RemoveFirst(RemoveFirst(pathOrKey, LitSpriteSlash),
                                 LitDotSvg), LitDotPng)
    ELSE RemoveSuffix(RemoveSuffix(RemovePrefix(pathOrKey, LitSpriteSlash),
                                   LitDotSvg), LitDotPng)

\* window.getEmojiDataUrl(pathOrKey) over the generated EMOJI_DATA:
\* EMOJI_DATA[key] || null
getEmojiDataUrl(v, data, pathOrKey) == ObjectGet(data, LookupKey(v, pathOrKey))

-----------------------------------------------------------------------------
(* The entries of window.EMOJI_DATA = {...} as the output generators spell  *)
(* them, and what a JavaScript engine makes of them when a page runs the    *)
(* output file.                                                             *)

\* svg_utf8_bundler.js: value.replace(/'/g, "\\'")
EscapedUtf8(value) == ReplaceChar(value, "'", <<"\\", "'">>)

\* the ultra bundler: value.replace(/\\\\/g, '\\\\').replace(/'/g, "\\\\'"),
\* code inside ${...}: the first pattern is two backslashes and so is its
\* replacement; a quote becomes two backslashes and the quote
EscapedUltra(value) ==
    ReplaceChar(
      ReplaceAll(value,
                 LAMBDA t, i : IF HasAt(t, i, <<"\\", "\\">>) THEN i + 2 ELSE 0,
                 LAMBDA t, i, j : <<"\\", "\\">>),
      "'", <<"\\", "\\", "'">>)

\* escapeForJS(str)
escapeForJS(str) ==
    ReplaceChar(
      ReplaceChar(
        ReplaceChar(str, "\\", <<"\\", "\\">>),
        Backtick, <<"\\", Backtick>>),
      "$", <<"\\", "$">>)

\* the quote around the value of an entry
ValueQuote(v) == IF v = "fixed" THEN Backtick ELSE "'"

\* the value of an entry between its quotes
EscapedValue(v, value) ==
    CASE v = "utf8" -> EscapedUtf8(value)
      [] v = "ultra" -> EscapedUltra(value)
      [] v = "fixed" -> escapeForJS(value)

\* `    '${key}': '${escaped}'${isLast ? '' : ','}` of the callback of
\* entries.map, for the fixed bundler with the value between backticks
EntryLine(v, key, value, isLast) ==
    <<" ", " ", " ", " ", "'">> \o key \o <<"'", ":", " ", ValueQuote(v)>>
    \o EscapedValue(v, value) \o <<ValueQuote(v)>>
    \o (IF isLast THEN <<>> ELSE <<",">>)

\* entries.map(...): the lines that .join('\n') puts into the output
GeneratedEntries(v, entries) ==
    [n \in 1..Len(entries) |->
        EntryLine(v, entries[n][1], entries[n][2], n = Len(entries))]

\* the character at index k of a literal that starts at index i stands
\* after a backslash that is itself no escaped character: an odd run of
\* backslashes ends before it
IsEscaped(s, i, k) ==
    LET before == {m \in (i - 1)..(k - 1) : m = i - 1 \/ s[m] # "\\"}
        run == (k - 1) - (CHOOSE m \in before : \A n \in before : n <= m)
    IN  run % 2 = 1

\* the index of the quote that closes the literal whose first character is
\* at index i; 0 when the line ends before (a syntax error)
ClosingQuote(s, i, quote) ==
    LET c == {k \in i..Len(s) : s[k] = quote /\ ~IsEscaped(s, i, k)}
    IN  IF c = {} THEN 0 ELSE SetMin(c)

\* the character an escape sequence \c stands for; a character without a
\* meaning of its own stands for itself
EscapeValue(c) ==
    CASE c = "n" -> "\n"
      [] c = "t" -> "\t"
      [] c = "r" -> "\r"
      [] c = "f" -> "\f"
      [] c = "b" -> Backspace
      [] c = "v" -> VerticalTab
      [] c = "0" -> Nul
      [] OTHER -> c

\* escapes that need more than one character (\x, \u) or that strict-mode
\* code may not hold (\1 .. \9): none is produced here, and each is taken
\* as malformed
IsBadEscape(c) == c \in {"x", "u", "1", "2", "3", "4", "5", "6", "7", "8", "9"}

\* the string value of the literal s[i .. close - 1]: <<>> for a syntax
\* error (a malformed escape, or ${ in a template), else <<the string>>
LiteralValue(s, i, close, quote) ==
    LET bad == \E k \in i..(close - 1) :
                  \/ IsEscaped(s, i, k) /\ IsBadEscape(s[k])
                  \/ /\ quote = Backtick
                     /\ s[k] = "$"
                     /\ ~IsEscaped(s, i, k)
                     /\ k + 1 < close
                     /\ s[k + 1] = "{"
        read == [r \in 1..(close - i) |->
                    LET k == i + r - 1
                    IN  IF IsEscaped(s, i, k) THEN EscapeValue(s[k])
                        ELSE IF s[k] = "\\" THEN ""
                        ELSE s[k]]
    IN  IF bad THEN <<>>
        ELSE <<SelectSeq(read, LAMBDA c : c # "")>>

\* one line of the object literal as the engine reads it: a string literal,
\* a colon, a string literal or template, a comma unless the line is the
\* last; <<>> for a syntax error, else <<key, value>>
ParseEntry(v, line, isLast) ==
    LET keyEnd == ClosingQuote(line, 6, "'")
        valueEnd == ClosingQuote(line, keyEnd + 4, ValueQuote(v))
        rest == IF isLast THEN <<>> ELSE <<",">>
        key == LiteralValue(line, 6, keyEnd, "'")
        value == LiteralValue(line, keyEnd + 4, valueEnd, ValueQuote(v))
    IN  IF ~HasAt(line, 1, <<" ", " ", " ", " ", "'">>) \/ keyEnd = 0 THEN <<>>
        ELSE IF ~HasAt(line, keyEnd + 1, <<":", " ", ValueQuote(v)>>) THEN <<>>
        ELSE IF valueEnd = 0 THEN <<>>
        ELSE IF SubSeq(line, valueEnd + 1, Len(line)) # rest THEN <<>>
        ELSE IF key = <<>> \/ value = <<>> THEN <<>>
        ELSE <<key[1], value[1]>>

\* the object the literal makes of the lines, none of them in error
RECURSIVE ObjectOf(_, _, _)
ObjectOf(v, lines, n) ==
    IF n = 0 THEN <<>>
    ELSE LET e == ParseEntry(v, lines[n], n = Len(lines))
         IN  ObjectSet(ObjectOf(v, lines, n - 1), e[1], e[2])

-----------------------------------------------------------------------------
(* One run of a bundler over the sprite directory: bundleSVGEmojis of      *)
(* svg_utf8_bundler.js and bundleEmojis of the other two, which differ in   *)
(* svgToDataUri and in the generated helper only.  Afterwards the page      *)
(* that loads the output calls getEmojiDataUrl.                             *)

MaxFiles == 3

MaxBatch == 2

\* names a sprite directory may hold
FileNames ==
    { <<"a", ".", "s", "v", "g">>,
      <<"1", "0", ".", "s", "v", "g">>,
      <<"2", ".", "s", "v", "g">>,
      <<"F", "O", "O", ".", "S", "V", "G">>,
      <<"a", ".", "s", "v", "g", ".", "s", "v", "g">>,
      LitProto \o LitDotSvg,
      <<"b", ".", "p", "n", "g">> }

\* the text of a file: a group around its own name, so that no two are alike
FileText(name) == <<"<", "g", ">">> \o name \o <<"<", "/", "g", ">">>

Directories == {S \in SUBSET FileNames : Cardinality(S) <= MaxFiles}

\* the arguments the page hands to getEmojiDataUrl: a key, or 'sprite/' the
\* key '.svg'
LookupArgs ==
    LET keys == {basename(f, LitDotSvg) : f \in {n \in FileNames : IsSvgName(n)}}
    IN  keys \cup {LitSpriteSlash \o key \o LitDotSvg : key \in keys}

PipelineIdle ==
    /\ svgContent = <<>>
    /\ optimized = <<>>
    /\ dataUri = <<>>
    /\ passes = 0
    /\ pc = "idle"

InitBundle ==
    /\ variant \in Variants
    /\ PipelineIdle
    /\ dirState \in {"missing", "file", "dir"}
    /\ dirEntries \in (IF dirState = "dir" THEN Directories ELSE {{}})
    /\ contents = [n \in dirEntries |-> FileText(n)]
    /\ unreadable \in SUBSET {n \in dirEntries : IsSvgName(n)}
    /\ batchSize \in 1..MaxBatch
    /\ files = <<>>
    /\ batchStart = 0
    /\ batchPos = 0
    /\ emojiData = <<>>
    /\ processed = 0
    /\ errors = 0
    /\ attempted = <<>>
    /\ written = FALSE
    /\ outputEntries = <<>>
    /\ symbols = <<>>
    /\ exitCode = -1
    /\ at = "start"
    /\ asked = <<>>
    /\ answer = <<>>
    /\ generated = <<>>
    /\ loaded = <<>>

\* process.exit(status)
Exit(status) ==
    /\ exitCode' = status
    /\ at' = "exited"

\* the test of the file count left out: the run goes on with no files
NoFilesUnchecked(fs) == FALSE

\* files.length === 0
NoFiles(fs) == Len(fs) = 0

\* if (!fs.existsSync(SPRITE_DIR)) { ...; process.exit(1); }
DirectoryMissing ==
    /\ at = "start"
    /\ dirState = "missing"
    /\ Exit(1)
    /\ UNCHANGED <<pipeline, dirState, dirEntries, contents, unreadable,
                   batchSize, files, batchStart, batchPos, emojiData,
                   processed, errors, attempted, written, outputEntries,
                   symbols, asked, answer, generated, loaded>>

\* fs.readdirSync throws (SPRITE_DIR is no directory): the promise is
\* rejected and .catch(...) calls process.exit(1)
ScanThrows ==
    /\ at = "start"
    /\ dirState = "file"
    /\ Exit(1)
    /\ UNCHANGED <<pipeline, dirState, dirEntries, contents, unreadable,
                   batchSize, files, batchStart, batchPos, emojiData,
                   processed, errors, attempted, written, outputEntries,
                   symbols, asked, answer, generated, loaded>>

\* readdirSync(...).filter(...).sort() finds nothing: process.exit(1)
ScanEmpty ==
    /\ at = "start"
    /\ dirState = "dir"
    /\ files' = Sorted({f \in dirEntries : IsSvgName(f)})
    /\ NoFiles(files')
    /\ Exit(1)
    /\ UNCHANGED <<pipeline, dirState, dirEntries, contents, unreadable,
                   batchSize, batchStart, batchPos, emojiData,
                   processed, errors, attempted, written, outputEntries,
                   symbols, asked, answer, generated, loaded>>

\* readdirSync(...).filter(...).sort() finds files: the loops start
ScanFound ==
    /\ at = "start"
    /\ dirState = "dir"
    /\ files' = Sorted({f \in dirEntries : IsSvgName(f)})
    /\ ~NoFiles(files')
    /\ at' = "loop"
    /\ batchStart' = 0
    /\ batchPos' = 0
    /\ UNCHANGED <<pipeline, dirState, dirEntries, contents, unreadable,
                   batchSize, emojiData, processed, errors, attempted,
                   written, outputEntries, symbols, exitCode, asked, answer, generated, loaded>>

\* files.slice(i, i + BATCH_SIZE).length
BatchLength ==
    IF batchStart + batchSize <= Len(files) THEN batchSize
    ELSE Len(files) - batchStart

\* the body of the inner loop, the read succeeding
ReadFile ==
    /\ at = "loop"
    /\ batchPos < BatchLength
    /\ LET file == files[batchStart + batchPos + 1]
       IN  /\ file \notin unreadable
           /\ attempted' = Append(attempted, file)
           /\ emojiData' = ObjectSet(emojiData, basename(file, LitDotSvg),
                                     DataUriOf(variant, contents[file]))
    /\ processed' = processed + 1
    /\ batchPos' = batchPos + 1
    /\ UNCHANGED <<pipeline, dirState, dirEntries, contents, unreadable,
                   batchSize, files, batchStart, errors, written,
                   outputEntries, symbols, exitCode, at, asked, answer, generated, loaded>>

\* the body of the inner loop, fs.readFileSync throwing: catch (err)
ReadFails ==
    /\ at = "loop"
    /\ batchPos < BatchLength
    /\ LET file == files[batchStart + batchPos + 1]
       IN  /\ file \in unreadable
           /\ attempted' = Append(attempted, file)
    /\ errors' = errors + 1
    /\ batchPos' = batchPos + 1
    /\ UNCHANGED <<pipeline, dirState, dirEntries, contents, unreadable,
                   batchSize, files, batchStart, emojiData, processed,
                   written, outputEntries, symbols, exitCode, at, asked,
                   answer, generated, loaded>>

\* the batch is done: i += BATCH_SIZE, and i < files.length decides
NextBatch ==
    /\ at = "loop"
    /\ batchPos = BatchLength
    /\ batchStart' = batchStart + batchSize
    /\ batchPos' = 0
    /\ at' = IF batchStart' < Len(files) THEN "loop" ELSE "write"
    /\ UNCHANGED <<pipeline, dirState, dirEntries, contents, unreadable,
                   batchSize, files, emojiData, processed, errors, attempted,
                   written, outputEntries, symbols, exitCode, asked, answer, generated, loaded>>

\* generateOutputFile(emojiData, ...) lists Object.entries(emojiData);
\* fs.writeFileSync(OUTPUT_FILE, ...); the function returns and the process
\* ends with status 0
WriteOutput ==
    /\ at = "write"
    /\ outputEntries' = ObjectEntries(emojiData)
    /\ generated' = GeneratedEntries(variant, ObjectEntries(emojiData))
    /\ written' = TRUE
    /\ Exit(0)
    /\ UNCHANGED <<pipeline, dirState, dirEntries, contents, unreadable,
                   batchSize, files, batchStart, batchPos, emojiData,
                   processed, errors, attempted, symbols, asked, answer, loaded>>

\* fs.writeFileSync throws: .catch(...) calls process.exit(1)
WriteFails ==
    /\ at = "write"
    /\ Exit(1)
    /\ UNCHANGED <<pipeline, dirState, dirEntries, contents, unreadable,
                   batchSize, files, batchStart, batchPos, emojiData,
                   processed, errors, attempted, written, outputEntries,
                   symbols, asked, answer, generated, loaded>>

\* the page calls window.getEmojiDataUrl(pathOrKey); a call leaves nothing
\* behind for the next one, so one call is followed from each output
Lookup ==
    /\ at = "exited"
    /\ written
    /\ asked = <<>>
    /\ variant \in Variants
    /\ \E arg \in LookupArgs :
          /\ asked' = arg
          /\ answer' = getEmojiDataUrl(variant, outputEntries, arg)
    /\ UNCHANGED <<pipeline, dirState, dirEntries, contents, unreadable,
                   batchSize, files, batchStart, batchPos, emojiData,
                   processed, errors, attempted, written, outputEntries,
                   symbols, exitCode, at, generated, loaded>>

NextBundle ==
    \/ DirectoryMissing
    \/ ScanThrows
    \/ ScanEmpty
    \/ ScanFound
    \/ ReadFile
    \/ ReadFails
    \/ NextBatch
    \/ WriteOutput
    \/ WriteFails
    \/ Lookup

SpecBundle == InitBundle /\ [][NextBundle]_vars

\* file names with the characters that have a meaning inside a literal
LiteralNames ==
    { <<"a", ".", "s", "v", "g">>,
      <<"a", "'", "b", ".", "s", "v", "g">>,
      <<"a", "\\", "b", ".", "s", "v", "g">>,
      <<"a", Backtick, "$", ".", "s", "v", "g">> }

LiteralDirectories ==
    {S \in SUBSET LiteralNames : S # {} /\ Cardinality(S) <= MaxFiles}

\* file texts of these characters
LiteralTokens == { <<"\\">>, <<"'">>, <<Backtick>>, <<"$">> }

LiteralTexts == Texts(LiteralTokens, MaxTokens)

\* a run over readable files that all hold the same text, one file a batch
InitLiteral ==
    /\ variant \in Variants
    /\ PipelineIdle
    /\ dirState = "dir"
    /\ dirEntries \in LiteralDirectories
    /\ \E text \in LiteralTexts : contents = [n \in dirEntries |-> text]
    /\ unreadable = {}
    /\ batchSize = 1
    /\ files = <<>>
    /\ batchStart = 0
    /\ batchPos = 0
    /\ emojiData = <<>>
    /\ processed = 0
    /\ errors = 0
    /\ attempted = <<>>
    /\ written = FALSE
    /\ outputEntries = <<>>
    /\ symbols = <<>>
    /\ exitCode = -1
    /\ at = "start"
    /\ asked = <<>>
    /\ answer = <<>>
    /\ generated = <<>>
    /\ loaded = <<>>

\* every line of the object literal is one the engine accepts
Parses(v, lines) ==
    \A n \in 1..Len(lines) : ParseEntry(v, lines[n], n = Len(lines)) # <<>>

\* a page runs the output file: window.EMOJI_DATA = {...} is evaluated
LoadOutput ==
    /\ at = "exited"
    /\ written
    /\ variant \in Variants
    /\ Parses(variant, generated)
    /\ loaded' = ObjectEntries(ObjectOf(variant, generated, Len(generated)))
    /\ at' = "page"
    /\ UNCHANGED <<pipeline, dirState, dirEntries, contents, unreadable,
                   batchSize, files, batchStart, batchPos, emojiData,
                   processed, errors, attempted, written, outputEntries,
                   symbols, exitCode, asked, answer, generated>>

\* the output file is no program: the engine throws a SyntaxError and
\* EMOJI_DATA is never defined
LoadThrows ==
    /\ at = "exited"
    /\ written
    /\ variant \in Variants
    /\ ~Parses(variant, generated)
    /\ at' = "page error"
    /\ UNCHANGED <<pipeline, dirState, dirEntries, contents, unreadable,
                   batchSize, files, batchStart, batchPos, emojiData,
                   processed, errors, attempted, written, outputEntries,
                   symbols, exitCode, asked, answer, generated, loaded>>

NextLiteral ==
    \/ ScanFound
    \/ ReadFile
    \/ NextBatch
    \/ WriteOutput
    \/ LoadOutput
    \/ LoadThrows

SpecLiteral == InitLiteral /\ [][NextLiteral]_vars


-----------------------------------------------------------------------------
(* The two scripts beside the bundlers: main of optimize-svgs.js, which    *)
(* hands every icon of a directory to SVGO, and build_emoji_sprite.js,     *)
(* which gathers the icons into one sprite of symbols.                     *)

Tools == {"svgo", "sprite"}

\* \w
IsWordChar(c) ==
    \/ IsDigit(c)
    \/ c = "_"
    \/ ToLower(c) \in {"a", "b", "c", "d", "e", "f", "g", "h", "i", "j", "k",
                       "l", "m", "n", "o", "p", "q", "r", "s", "t", "u", "v",
                       "w", "x", "y", "z"}

LitSvgOpen == <<"<", "s", "v", "g">>

LitSvgClose == <<"<", "/", "s", "v", "g", ">">>

LitViewBoxEq == <<"v", "i", "e", "w", "b", "o", "x", "=", "\"">>

\* text.match(/<svg\b([^>]*)>([\s\S]*?)<\/svg>/i): <<>> when nothing matches,
\* else <<attrs, inner>> of the leftmost match; [^>]* ends at the first '>'
\* and the lazy group at the first closing tag after it
SvgMatch(text) ==
    LET close(n) == IndexOf(text, <<">">>, n + 4)
        last(n) == IF close(n) = 0 THEN 0
                   ELSE IndexOfCI(text, LitSvgClose, close(n) + 1)
        starts == {n \in 1..Len(text) :
                     /\ HasAtCI(text, n, LitSvgOpen)
                     /\ n + 4 <= Len(text)
                     /\ ~IsWordChar(text[n + 4])
                     /\ last(n) # 0}
    IN  IF starts = {} THEN <<>>
        ELSE LET n == SetMin(starts)
             IN  << SubSeq(text, n + 4, close(n) - 1),
                    SubSeq(text, close(n) + 1, last(n) - 1) >>

\* attrs.match(/viewBox="([^"]+)"/i): <<>> when nothing matches, else
\* <<the value>>, which is not empty
ViewBoxMatch(attrs) ==
    LET quote(n) == IndexOf(attrs, <<"\"">>, n + Len(LitViewBoxEq))
        starts == {n \in 1..Len(attrs) :
                     /\ HasAtCI(attrs, n, LitViewBoxEq)
                     /\ quote(n) > n + Len(LitViewBoxEq)}
    IN  IF starts = {} THEN <<>>
        ELSE LET n == SetMin(starts)
             IN  <<SubSeq(attrs, n + Len(LitViewBoxEq), quote(n) - 1)>>

\* name.replace(/\.[^/.]+$/, ""): the last '.' and what follows it, unless
\* nothing or a '/' follows
WithoutLastExtension(name) ==
    LET dots == {n \in 1..(Len(name) - 1) :
                   /\ name[n] = "."
                   /\ \A m \in (n + 1)..Len(name) : name[m] \notin {"/", "."}}
    IN  IF dots = {} THEN name ELSE SubSeq(name, 1, SetMin(dots) - 1)

\* idFromFilename(name)
idFromFilename(name) ==
    LET stem == WithoutLastExtension(name)
    IN  <<"e", "_">> \o
        [n \in 1..Len(stem) |->
            IF IsWordChar(stem[n]) \/ stem[n] = "-" THEN stem[n] ELSE "_"]

\* the inner markup the sprite builder takes from a file
InnerOf(text) == IF SvgMatch(text) = <<>> THEN text ELSE SvgMatch(text)[2]

\* the attributes it takes from the outer tag
AttrsOf(text) == IF SvgMatch(text) = <<>> THEN <<>> ELSE SvgMatch(text)[1]

\* viewBoxAttr
ViewBoxAttr(text) ==
    IF ViewBoxMatch(AttrsOf(text)) = <<>> THEN <<>>
    ELSE <<" ", "v", "i", "e", "w", "B", "o", "x", "=", "\"">>
         \o ViewBoxMatch(AttrsOf(text))[1] \o <<"\"">>

\* `<symbol id="${id}"${viewBoxAttr}>${inner}</symbol>\n`
SymbolOf(file, text) ==
    <<"<", "s", "y", "m", "b", "o", "l", " ", "i", "d", "=", "\"">>
    \o idFromFilename(file) \o <<"\"">> \o ViewBoxAttr(text) \o <<">">>
    \o InnerOf(text)
    \o <<"<", "/", "s", "y", "m", "b", "o", "l", ">", "\n">>

\* names an icon directory may hold
IconNames ==
    { <<"a", ".", "s", "v", "g">>,
      <<"F", "O", "O", ".", "S", "V", "G">>,
      <<"b", ".", "p", "n", "g">> }

IconDirectories == {S \in SUBSET IconNames : Cardinality(S) <= MaxFiles}

\* what an icon is made of: an opening tag of the outer element, a closing
\* tag, a whole svg element, a shape
IconTokens ==
    { <<"<", "s", "v", "g", " ", "v", "i", "e", "w", "B", "o", "x", "=", "\"",
        "0", " ", "0", " ", "1", " ", "1", "\"", ">">>,
      LitSvgClose,
      <<"<", "s", "v", "g", ">", "<", "g", "/", ">">> \o LitSvgClose,
      <<"<", "g", "/", ">">> }

IconTexts == Texts(IconTokens, MaxTokens)

\* the orders in which readdir may list the names S: the order is the file
\* system's, and neither script sorts
Listings(S) ==
    {s \in [1..Cardinality(S) -> S] :
        \A m, n \in 1..Cardinality(S) : m # n => s[m] # s[n]}

\* one file of the directory holds any text of the family, the others a
\* group around their names
InitTools ==
    /\ variant \in Tools
    /\ PipelineIdle
    /\ dirState \in (IF variant = "svgo"
                     THEN {"noarg", "missing", "file", "dir"}
                     ELSE {"missing", "file", "dir"})
    /\ dirEntries \in (IF dirState = "dir" THEN IconDirectories ELSE {{}})
    /\ \E text \in (IF variant = "sprite" THEN IconTexts ELSE {<<>>}) :
         \E special \in dirEntries \cup {<<>>} :
            contents = [n \in dirEntries |->
                           IF n = special /\ variant = "sprite"
                           THEN text ELSE FileText(n)]
    /\ unreadable \in SUBSET {n \in dirEntries : IsSvgName(n)}
    /\ batchSize = 1
    /\ files = <<>>
    /\ batchStart = 0
    /\ batchPos = 0
    /\ emojiData = <<>>
    /\ processed = 0
    /\ errors = 0
    /\ attempted = <<>>
    /\ written = FALSE
    /\ outputEntries = <<>>
    /\ symbols = <<>>
    /\ exitCode = -1
    /\ at = "start"
    /\ asked = <<>>
    /\ answer = <<>>
    /\ generated = <<>>
    /\ loaded = <<>>

\* optimize-svgs.js: if (!inputDir) { usage; process.exit(1); }
SvgoUsage ==
    /\ variant = "svgo"
    /\ at = "start"
    /\ dirState = "noarg"
    /\ Exit(1)
    /\ UNCHANGED <<pipeline, dirState, dirEntries, contents, unreadable,
                   batchSize, files, batchStart, batchPos, emojiData,
                   processed, errors, attempted, written, outputEntries,
                   symbols, asked, answer, generated, loaded>>

\* fs.readdir rejects in getAllSvgFiles (no such directory, or no
\* directory): main() rejects, .catch(console.error) prints the error and
\* the process ends with status 0
SvgoScanRejects ==
    /\ variant = "svgo"
    /\ at = "start"
    /\ dirState \in {"missing", "file"}
    /\ Exit(0)
    /\ UNCHANGED <<pipeline, dirState, dirEntries, contents, unreadable,
                   batchSize, files, batchStart, batchPos, emojiData,
                   processed, errors, attempted, written, outputEntries,
                   symbols, asked, answer, generated, loaded>>

\* svgFiles = await getAllSvgFiles(inputDir), of a directory without
\* subdirectories; however many files are found, main goes on
SvgoScan ==
    /\ variant = "svgo"
    /\ at = "start"
    /\ dirState = "dir"
    /\ files' \in Listings({f \in dirEntries : IsSvgName(f)})
    /\ at' = "mkdir"
    /\ UNCHANGED <<pipeline, dirState, dirEntries, contents, unreadable,
                   batchSize, batchStart, batchPos, emojiData,
                   processed, errors, attempted, written, outputEntries,
                   symbols, exitCode, asked, answer, generated, loaded>>

\* await fs.mkdir(outputDir, { recursive: true }): the output directory is
\* there from now on
SvgoMkdir ==
    /\ variant = "svgo"
    /\ at = "mkdir"
    /\ written' = TRUE
    /\ at' = "loop"
    /\ UNCHANGED <<pipeline, dirState, dirEntries, contents, unreadable,
                   batchSize, files, batchStart, batchPos, emojiData,
                   processed, errors, attempted, outputEntries,
                   symbols, exitCode, asked, answer, generated, loaded>>

\* fs.mkdir rejects: as for the scan, the process ends with status 0
SvgoMkdirRejects ==
    /\ variant = "svgo"
    /\ at = "mkdir"
    /\ Exit(0)
    /\ UNCHANGED <<pipeline, dirState, dirEntries, contents, unreadable,
                   batchSize, files, batchStart, batchPos, emojiData,
                   processed, errors, attempted, written, outputEntries,
                   symbols, asked, answer, generated, loaded>>

\* optimizeSvg(svgFiles[i], outputDir) returns a result: processedCount++
SvgoOptimize ==
    /\ variant = "svgo"
    /\ at = "loop"
    /\ batchPos < Len(files)
    /\ files[batchPos + 1] \notin unreadable
    /\ attempted' = Append(attempted, files[batchPos + 1])
    /\ outputEntries' = Append(outputEntries, files[batchPos + 1])
    /\ processed' = processed + 1
    /\ batchPos' = batchPos + 1
    /\ UNCHANGED <<pipeline, dirState, dirEntries, contents, unreadable,
                   batchSize, files, batchStart, emojiData, errors,
                   written, symbols, exitCode, at, asked, answer, generated, loaded>>

\* optimizeSvg catches its error, prints it and returns null
SvgoOptimizeFails ==
    /\ variant = "svgo"
    /\ at = "loop"
    /\ batchPos < Len(files)
    /\ files[batchPos + 1] \in unreadable
    /\ attempted' = Append(attempted, files[batchPos + 1])
    /\ batchPos' = batchPos + 1
    /\ UNCHANGED <<pipeline, dirState, dirEntries, contents, unreadable,
                   batchSize, files, batchStart, emojiData, processed,
                   errors, written, outputEntries, symbols, exitCode, at,
                   asked, answer, generated, loaded>>

\* main returns after the statistics: the process ends with status 0
SvgoDone ==
    /\ variant = "svgo"
    /\ at = "loop"
    /\ batchPos = Len(files)
    /\ Exit(0)
    /\ UNCHANGED <<pipeline, dirState, dirEntries, contents, unreadable,
                   batchSize, files, batchStart, batchPos, emojiData,
                   processed, errors, attempted, written, outputEntries,
                   symbols, asked, answer, generated, loaded>>

\* build_emoji_sprite.js: fs.readdirSync(EMOJI_DIR) throws, nothing catches
\* it, node ends with status 1
SpriteScanThrows ==
    /\ variant = "sprite"
    /\ at = "start"
    /\ dirState \in {"missing", "file"}
    /\ Exit(1)
    /\ UNCHANGED <<pipeline, dirState, dirEntries, contents, unreadable,
                   batchSize, files, batchStart, batchPos, emojiData,
                   processed, errors, attempted, written, outputEntries,
                   symbols, asked, answer, generated, loaded>>

\* files = fs.readdirSync(EMOJI_DIR).filter(...); however many there are,
\* the script goes on
SpriteScan ==
    /\ variant = "sprite"
    /\ at = "start"
    /\ dirState = "dir"
    /\ files' \in Listings({f \in dirEntries : IsSvgName(f)})
    /\ at' = "loop"
    /\ UNCHANGED <<pipeline, dirState, dirEntries, contents, unreadable,
                   batchSize, batchStart, batchPos, emojiData,
                   processed, errors, attempted, written, outputEntries,
                   symbols, exitCode, asked, answer, generated, loaded>>

\* one turn of for (const file of files): symbols += `<symbol ...`; the
\* string symbols is kept as the sequence of its symbols
SpriteSymbol ==
    /\ variant = "sprite"
    /\ at = "loop"
    /\ batchPos < Len(files)
    /\ files[batchPos + 1] \notin unreadable
    /\ attempted' = Append(attempted, files[batchPos + 1])
    /\ symbols' = Append(symbols, SymbolOf(files[batchPos + 1],
                                           contents[files[batchPos + 1]]))
    /\ batchPos' = batchPos + 1
    /\ UNCHANGED <<pipeline, dirState, dirEntries, contents, unreadable,
                   batchSize, files, batchStart, emojiData, processed,
                   errors, written, outputEntries, exitCode, at, asked,
                   answer, generated, loaded>>

\* fs.readFileSync throws in the loop: node ends with status 1
SpriteReadThrows ==
    /\ variant = "sprite"
    /\ at = "loop"
    /\ batchPos < Len(files)
    /\ files[batchPos + 1] \in unreadable
    /\ attempted' = Append(attempted, files[batchPos + 1])
    /\ Exit(1)
    /\ UNCHANGED <<pipeline, dirState, dirEntries, contents, unreadable,
                   batchSize, files, batchStart, batchPos, emojiData,
                   processed, errors, written, outputEntries, symbols,
                   asked, answer, generated, loaded>>

\* fs.mkdirSync, fs.writeFileSync(OUT, out, "utf8"): the sprite is written
\* and the script ends
SpriteWrite ==
    /\ variant = "sprite"
    /\ at = "loop"
    /\ batchPos = Len(files)
    /\ written' = TRUE
    /\ Exit(0)
    /\ UNCHANGED <<pipeline, dirState, dirEntries, contents, unreadable,
                   batchSize, files, batchStart, batchPos, emojiData,
                   processed, errors, attempted, outputEntries, symbols,
                   asked, answer, generated, loaded>>

\* fs.mkdirSync or fs.writeFileSync throws: node ends with status 1
SpriteWriteThrows ==
    /\ variant = "sprite"
    /\ at = "loop"
    /\ batchPos = Len(files)
    /\ Exit(1)
    /\ UNCHANGED <<pipeline, dirState, dirEntries, contents, unreadable,
                   batchSize, files, batchStart, batchPos, emojiData,
                   processed, errors, attempted, written, outputEntries,
                   symbols, asked, answer, generated, loaded>>

NextTools ==
    \/ SvgoUsage
    \/ SvgoScanRejects
    \/ SvgoScan
    \/ SvgoMkdir
    \/ SvgoMkdirRejects
    \/ SvgoOptimize
    \/ SvgoOptimizeFails
    \/ SvgoDone
    \/ SpriteScanThrows
    \/ SpriteScan
    \/ SpriteSymbol
    \/ SpriteReadThrows
    \/ SpriteWrite
    \/ SpriteWriteThrows

SpecTools == InitTools /\ [][NextTools]_vars

-----------------------------------------------------------------------------
(* What the claims speak of.                                               *)

Optimizers == {"ultra", "fixed"}

Contains(s, p) == IndexOf(s, p, 1) # 0

\* decodeURIComponent on the payload: %XX becomes the character of code XX
\* (the codes of the modelled alphabet, and %27 for the single quote)
DecodeTable == PercentCodes \o << <<"'", <<"%", "2", "7">>>> >>

MatchPercentCode(s, i) ==
    IF \E k \in 1..Len(DecodeTable) : HasAt(s, i, DecodeTable[k][2])
    THEN i + 3 ELSE 0

DecodedChar(s, i, j) ==
    <<DecodeTable[CHOOSE k \in 1..Len(DecodeTable) :
                     HasAt(s, i, DecodeTable[k][2])][1]>>

PercentDecode(s) == ReplaceAll(s, MatchPercentCode, DecodedChar)

\* the data URI without its 'data:image/svg+xml;charset=utf-8,' prefix
Payload(uri) == SubSeq(uri, Len(DataUriPrefix) + 1, Len(uri))

\* C1: an optimizer run on its own output gives that output back
\* (ultraOptimizeSVG and optimizeSVG are idempotent).
C1_Idempotent ==
    (pc = "optimized" /\ variant \in Optimizers /\ passes >= 2)
        => optimized = svgContent

\* C2: for every markup handed to the escaping step of an encoder, stripping
\* the prefix of the data URI and percent-decoding the payload gives the
\* markup back.
C2_RoundTrip ==
    pc = "encoded"
        => /\ HasAt(dataUri, 1, DataUriPrefix)
           /\ PercentDecode(Payload(dataUri)) = optimized

\* C3: in the hand-written encoders no escape sequence is escaped again: a '#'
\* of the markup is '%23' in the payload, never '%2523'.
C3_NoDoubleEscape ==
    (/\ pc = "encoded"
     /\ variant \in {"utf8", "ultra"}
     /\ Contains(optimized, <<"#">>)
     /\ ~Contains(optimized, <<"%">>))
        => /\ Contains(Payload(dataUri), <<"%", "2", "3">>)
           /\ ~Contains(Payload(dataUri), <<"%", "2", "5", "2", "3">>)


IsQuote(c) == c \in {"\"", "'"}

\* the values of the attributes name=... of a text: white space, the name,
\* '=', a quote, the value, the same quote
AttrValues(s, name) ==
    LET n == Len(name)
        starts == {i \in 1..Len(s) :
                     /\ IsWs(s[i])
                     /\ HasAt(s, i + 1, name \o <<"=">>)
                     /\ i + n + 2 <= Len(s)
                     /\ IsQuote(s[i + n + 2])
                     /\ IndexOf(s, <<s[i + n + 2]>>, i + n + 3) # 0}
    IN  {SubSeq(s, i + n + 3, IndexOf(s, <<s[i + n + 2]>>, i + n + 3) - 1) :
           i \in starts}

LitViewBox == <<"v", "i", "e", "w", "B", "o", "x">>

\* C4: a viewBox attribute of the input is an attribute of the output of
\* ultraOptimizeSVG and of optimizeSVG, with the same value.
C4_ViewBoxKept ==
    (pc = "optimized" /\ variant \in Optimizers)
        => AttrValues(svgContent, LitViewBox) \subseteq AttrValues(optimized, LitViewBox)


IsDigits(s) == \A k \in 1..Len(s) : IsDigit(s[k])

\* a decimal literal: digits (none, for a literal that starts with the
\* point), one point, one digit or more
IsLiteral(s) ==
    /\ Cardinality({k \in 1..Len(s) : s[k] = "."}) = 1
    /\ s[Len(s)] # "."
    /\ \A k \in 1..Len(s) : IsDigit(s[k]) \/ s[k] = "."

PointOf(s) == CHOOSE k \in 1..Len(s) : s[k] = "."

IntPart(s) == SubSeq(s, 1, PointOf(s) - 1)

FracPart(s) == SubSeq(s, PointOf(s) + 1, Len(s))

\* the literals the precision step is about: <digits>.<3 or more digits>
IsLongLiteral(s) ==
    IsLiteral(s) /\ IntPart(s) # <<>> /\ Len(FracPart(s)) > PRECISION

\* a literal in plain decimal notation with exactly PRECISION fractional
\* digits and an integer part without needless zeros
IsFixedLiteral(s) ==
    /\ IsLiteral(s)
    /\ Len(FracPart(s)) = PRECISION
    /\ IntPart(s) # <<>>
    /\ (Len(IntPart(s)) > 1 => IntPart(s)[1] # "0")

C6_Rounded ==
    (pc = "optimized" /\ variant \in Optimizers /\ svgContent # <<>>)
        => /\ (IsLiteral(svgContent) /\ Len(FracPart(svgContent)) > PRECISION)
                => /\ IsLiteral(optimized)
                   /\ Len(FracPart(optimized)) = PRECISION
                   /\ LET scale == Pow10(Len(FracPart(svgContent)) - PRECISION)
                          was == DecVal(IntPart(svgContent) \o FracPart(svgContent))
                          now == DecVal(IntPart(optimized) \o FracPart(optimized)) * scale
                      IN  /\ 2 * (now - was) <= scale
                          /\ 2 * (was - now) <= scale
           /\ (IsDigits(svgContent)
                 \/ (IsLiteral(svgContent) /\ IntPart(svgContent) # <<>>
                       /\ Len(FracPart(svgContent)) <= PRECISION))
                => optimized = svgContent

HexVal(c) == (CHOOSE d \in 1..16 : HexChars[d] = ToLower(c)) - 1

IsLowerHex(s) == \A k \in 1..Len(s) : \E d \in 1..16 : HexChars[d] = s[k]

\* a colour '#' and six hex digits
IsHex6(s) ==
    /\ Len(s) = 7
    /\ s[1] = "#"
    /\ \A k \in 2..7 : IsHexDigit(s[k])

\* in each of the three channels of a 6-digit colour the two digits are equal
PairsEqual(s) == \A k \in {2, 4, 6} : ToLower(s[k]) = ToLower(s[k + 1])

\* the 3-digit form of a 6-digit colour with equal pairs
Collapsed(s) == <<"#", s[2], s[4], s[6]>>

\* rgb(r,g,b) of the channel texts r, g, b is the text s
IsRgbOf(s, r, g, b) == s = Rgb(r, g, b)

\* C7: rgb(r,g,b) becomes '#' and 6 lower-case hex digits, two for each
\* channel's value, and a 6-digit colour (written so, or come from rgb) is
\* collapsed to its 3-digit form exactly when the two digits of each channel
\* are equal.
C7_ColorRule ==
    (pc = "optimized" /\ variant \in Optimizers)
        => /\ \A r \in ChannelTexts, g \in ChannelTexts, b \in ChannelTexts :
                 IsRgbOf(svgContent, r, g, b)
                    => \E full \in {optimized,
                                    IF Len(optimized) = 4
                                    THEN <<"#", optimized[2], optimized[2],
                                                optimized[3], optimized[3],
                                                optimized[4], optimized[4]>>
                                    ELSE optimized} :
                          /\ IsHex6(full)
                          /\ IsLowerHex(SubSeq(full, 2, 7))
                          /\ 16 * HexVal(full[2]) + HexVal(full[3]) = DecVal(r)
                          /\ 16 * HexVal(full[4]) + HexVal(full[5]) = DecVal(g)
                          /\ 16 * HexVal(full[6]) + HexVal(full[7]) = DecVal(b)
                          /\ optimized = (IF PairsEqual(full) THEN Collapsed(full)
                                                            ELSE full)
           /\ IsHex6(svgContent)
                 => optimized = (IF PairsEqual(svgContent)
                                 THEN Collapsed(svgContent) ELSE svgContent)

Rgb255 == Rgb(<<"2", "5", "5">>, <<"2", "5", "5">>, <<"2", "5", "5">>)

\* C8 as the specification lists the examples: rgb(255,255,255) becomes
\* #fff, #112233 stays #112233 and #aabbcc stays in its 6-digit form.
C8_ExamplesAsListed ==
    (pc = "optimized" /\ variant \in Optimizers)
        => /\ svgContent = Rgb255 => optimized = <<"#", "f", "f", "f">>
           /\ svgContent = <<"#", "1", "1", "2", "2", "3", "3">>
                 => optimized = svgContent
           /\ svgContent = <<"#", "a", "a", "b", "b", "c", "c">>
                 => optimized = svgContent

\* C8, amended: rgb(255,255,255) becomes #fff, #112233 becomes #123 and
\* #aabbcc becomes #abc (in each of these the two digits of every channel
\* are equal, which is when the 3-digit form is taken).
C8_Examples ==
    (pc = "optimized" /\ variant \in Optimizers)
        => /\ svgContent = Rgb255 => optimized = <<"#", "f", "f", "f">>
           /\ svgContent = <<"#", "1", "1", "2", "2", "3", "3">>
                 => optimized = <<"#", "1", "2", "3">>
           /\ svgContent = <<"#", "a", "a", "b", "b", "c", "c">>
                 => optimized = <<"#", "a", "b", "c">>

\* an example has been optimized: #112233 was collapsed to #123
C8_Witness ==
    /\ pc = "optimized"
    /\ variant = "ultra"
    /\ svgContent = <<"#", "1", "1", "2", "2", "3", "3">>
    /\ optimized = <<"#", "1", "2", "3">>

\* a text holds an element of this name: the opening literal, then the end
\* of the name (white space, '/' or '>')
HasElement(s, open) ==
    \E i \in 1..Len(s) :
        /\ HasAtCI(s, i, open)
        /\ i + Len(open) <= Len(s)
        /\ (IsWs(s[i + Len(open)]) \/ s[i + Len(open)] \in {"/", ">"})

HasComment(s) == \E i \in 1..Len(s) : MatchComment(s, i) # 0

HasXmlDecl(s) == \E i \in 1..Len(s) : MatchXmlDecl(s, i) # 0

\* C10: the markup each optimizer produces (and each bundler encodes) holds
\* no XML declaration, no comment and no metadata, title or desc element.
C10_Stripped ==
    pc = "optimized"
        => /\ ~HasXmlDecl(optimized)
           /\ ~HasComment(optimized)
           /\ ~HasElement(optimized, LitMetadataOpen)
           /\ ~HasElement(optimized, LitTitleOpen)
           /\ ~HasElement(optimized, LitDescOpen)

\* the path data of a text, in order: the values of the attributes d="..."
\* (or d='...'), each after white space as an attribute is
PathDataStarts(s) ==
    {i \in 2..Len(s) :
        /\ IsWs(s[i - 1])
        /\ HasAt(s, i, <<"d", "=">>)
        /\ i + 2 <= Len(s)
        /\ IsQuote(s[i + 2])
        /\ IndexOf(s, <<s[i + 2]>>, i + 3) # 0}

PathData(s) ==
    LET starts == PathDataStarts(s)
        nth(k) == CHOOSE i \in starts : Cardinality({j \in starts : j < i}) = k - 1
    IN  [k \in 1..Cardinality(starts) |->
           SubSeq(s, nth(k) + 3, IndexOf(s, <<s[nth(k) + 2]>>, nth(k) + 3) - 1)]

\* the command letters of path data, in order
Commands(d) == SelectSeq(d, IsPathCommand)

\* the number of numeric tokens of path data: the maximal runs of characters
\* that are neither white space, nor a comma, nor a command letter
IsTokenChar(c) == ~IsWs(c) /\ c # "," /\ ~IsPathCommand(c)

TokenCount(d) ==
    Cardinality({k \in 1..Len(d) :
                   IsTokenChar(d[k]) /\ (k = 1 \/ ~IsTokenChar(d[k - 1]))})

\* C9: every path d attribute of the input is in the output with the same
\* command letters in the same order, and no two numeric tokens joined.
C9_PathDataKept ==
    (pc = "optimized" /\ variant \in Optimizers)
        => LET a == PathData(svgContent)
               b == PathData(optimized)
           IN  /\ Len(a) = Len(b)
               /\ \A k \in 1..Len(a) :
                     /\ Commands(b[k]) = Commands(a[k])
                     /\ TokenCount(b[k]) = TokenCount(a[k])


\* a text has white space where collapsing and trimming leave none: a run of
\* two or more, some between '>' and '<', or some at either end
HasLooseWs(s) ==
    \/ \E k \in 1..(Len(s) - 1) : IsWs(s[k]) /\ IsWs(s[k + 1])
    \/ \E k \in 2..(Len(s) - 1) : IsWs(s[k]) /\ s[k - 1] = ">" /\ s[k + 1] = "<"
    \/ (s # <<>> /\ (IsWs(s[1]) \/ IsWs(s[Len(s)])))

\* C11: the optimized markup, after every rewrite step has run, has no run
\* of two or more white-space characters, no white space between a '>' and
\* the following '<', and no leading or trailing white space.
C11_WhitespaceCollapsed == pc = "optimized" => ~HasLooseWs(optimized)


IsNameChar(c) == ~IsWs(c) /\ c \notin {"<", ">", "=", "/", "\"", "'"}

\* the indices of the '=' of a text that a quote follows: where an attribute
\* name ends and its value starts
AttrEquals(s) == {k \in 2..(Len(s) - 1) : s[k] = "=" /\ IsQuote(s[k + 1])}

\* the index where the name that ends before index k starts
NameStart(s, k) ==
    LET stops == {j \in 1..(k - 1) : ~IsNameChar(s[j])}
    IN  IF stops = {} THEN 1
        ELSE (CHOOSE j \in stops : \A m \in stops : m <= j) + 1

\* every attribute name of a text follows white space
AttrsSeparated(s) ==
    \A k \in AttrEquals(s) :
        /\ NameStart(s, k) < k
        /\ NameStart(s, k) > 1
        /\ IsWs(s[NameStart(s, k) - 1])

\* C20: ultraOptimizeSVG never removes the white space that separates a tag
\* name from its first attribute or one attribute from the next: when every
\* attribute name of the input follows white space, so does every attribute
\* name of the output ('<svg viewBox=...' never becomes '<svgviewBox=...').
C20_AttrsStaySeparated ==
    (pc = "optimized" /\ variant = "ultra" /\ AttrsSeparated(svgContent))
        => AttrsSeparated(optimized)


\* the four attributes with their default value, each in both quote styles
DefaultAttrs ==
    LET single(a) == [k \in 1..Len(a) |-> IF a[k] = "\"" THEN "'" ELSE a[k]]
        double == {LitFillOpacity, LitStrokeOpacity, LitOpacity, LitFillRule}
    IN  double \cup {single(a) : a \in double}

\* a text has the attribute a: white space, then a
HasAttr(s, a) == \E k \in 1..Len(s) : IsWs(s[k]) /\ HasAt(s, k + 1, a)

\* C12: the output of ultraOptimizeSVG and of optimizeSVG holds none of
\* fill-opacity="1", stroke-opacity="1", opacity="1" and fill-rule="nonzero",
\* in either quote style.
C12_DefaultsRemoved ==
    (pc = "optimized" /\ variant \in Optimizers)
        => \A a \in DefaultAttrs : ~HasAttr(optimized, a)


\* a bundler has written its output and ended
BundleWritten == at = "exited" /\ written /\ variant \in Variants

\* the selected files whose read succeeds
FilesRead == SelectSeq(files, LAMBDA f : f \notin unreadable)

\* the keys of the output, in the order the output lists them
OutputKeys == [n \in 1..Len(outputEntries) |-> outputEntries[n][1]]

\* a file name without its extension: without its last four characters
WithoutExtension(file) == SubSeq(file, 1, Len(file) - Len(LitDotSvg))

\* C13: every selected file that was read is stored under its name with the
\* extension removed; FOO.SVG is stored under FOO.
C13_KeyIsNameWithoutExtension ==
    BundleWritten
        => \A n \in 1..Len(FilesRead) :
              \E m \in 1..Len(outputEntries) :
                 /\ outputEntries[m][1] = WithoutExtension(FilesRead[n])
                 /\ outputEntries[m][2] = DataUriOf(variant, contents[FilesRead[n]])

\* C14: whatever BATCH_SIZE is, the entries of the generated EMOJI_DATA are
\* in the order of the sorted file names: of two entries, the one listed
\* first is of the file that comes first.
C14_EntriesInFileOrder ==
    BundleWritten
        => \A p \in 1..Len(outputEntries), q \in 1..Len(outputEntries) :
              p < q
                 => \E a \in 1..Len(files), b \in 1..Len(files) :
                       /\ a < b
                       /\ basename(files[a], LitDotSvg) = outputEntries[p][1]
                       /\ basename(files[b], LitDotSvg) = outputEntries[q][1]

\* C15: when a bundler has written its output, every selected file was
\* attempted exactly once, the error counter is the number of files whose
\* read failed, the processed counter is the number of the others, the
\* bundle holds exactly their keys, and the exit status is 0.
C15_PartialResult ==
    BundleWritten
        => /\ attempted = files
           /\ errors = Len(files) - Len(FilesRead)
           /\ processed = Len(FilesRead)
           /\ Len(outputEntries) = Len(FilesRead)
           /\ {OutputKeys[n] : n \in 1..Len(OutputKeys)}
                 = {basename(FilesRead[n], LitDotSvg) : n \in 1..Len(FilesRead)}
           /\ exitCode = 0

\* the directory holds no file the bundlers select
NothingSelected == {f \in dirEntries : IsSvgName(f)} = {}

\* C16: when the input directory is missing or holds no '.svg' file, a
\* bundler ends with a non-zero status and never writes the output file; the
\* output file is written only after every selected file was attempted.
C16_FatalWritesNothing ==
    variant \in Variants
        => /\ (dirState = "missing" \/ NothingSelected)
                => /\ ~written
                   /\ at = "exited" => exitCode # 0
           /\ written => /\ Len(attempted) = Len(files)
                         /\ \A n \in 1..Len(files) : attempted[n] = files[n]

\* a bundler has ended on a directory that holds files, none of them '.svg'
C16_Witness ==
    /\ variant \in Variants
    /\ at = "exited"
    /\ dirState = "dir"
    /\ dirEntries # {}
    /\ NothingSelected
    /\ exitCode = 1
    /\ ~written

\* the argument of a lookup is 'sprite/' key '.svg'
IsPathLike(arg) == HasAt(arg, 1, LitSpriteSlash) /\ EndsWith(arg, LitDotSvg)

\* the key a lookup is about
AskedKey ==
    IF IsPathLike(asked)
    THEN SubSeq(asked, Len(LitSpriteSlash) + 1, Len(asked) - Len(LitDotSvg))
    ELSE asked

\* C18: the lookup helper returns EMOJI_DATA[k] for the bare key k and for
\* 'sprite/' k '.svg' when the bundle has the key k, and null when it has
\* not, also for keys that contain '.svg' or '.png'.
C18_Lookup ==
    (BundleWritten /\ asked # <<>>)
        => LET has == {n \in 1..Len(outputEntries) : outputEntries[n][1] = AskedKey}
           IN  IF has = {} THEN answer = <<>>
               ELSE \A n \in has : answer = <<outputEntries[n][2]>>

\* C17: optimize-svgs.js and the sprite builder end with status 1, and have
\* written no output, when the input directory does not exist, when it holds
\* no matching '.svg' file, or when a top-level error is raised (here: the
\* input path is no directory).
C17_ToolsFatal ==
    (variant \in Tools /\ at = "exited"
        /\ (dirState \in {"missing", "file"} \/ NothingSelected))
        => /\ exitCode = 1
           /\ ~written

\* the text of an outer svg element: an opening tag at the start, the
\* closing tag at the end
HasOuterSvg(text) ==
    /\ HasAt(text, 1, LitSvgOpen)
    /\ Len(text) > Len(LitSvgOpen)
    /\ ~IsWordChar(text[Len(LitSvgOpen) + 1])
    /\ EndsWith(text, LitSvgClose)
    /\ IndexOf(text, <<">">>, 1) <= Len(text) - Len(LitSvgClose)

\* what stands between the outer opening tag and the outer closing tag
OuterBody(text) ==
    SubSeq(text, IndexOf(text, <<">">>, 1) + 1, Len(text) - Len(LitSvgClose))

\* every svg element that opens in the markup closes in it, and none closes
\* before it opens
Balanced(body) ==
    LET opens(k) == Cardinality({n \in 1..k : HasAt(body, n, LitSvgOpen)})
        closes(k) == Cardinality({n \in 1..k : HasAt(body, n, LitSvgClose)})
    IN  /\ \A k \in 1..Len(body) : closes(k) <= opens(k)
        /\ closes(Len(body)) = opens(Len(body))

\* what a symbol of the sprite holds between its tags
SymbolContent(symbol) ==
    SubSeq(symbol, IndexOf(symbol, <<">">>, 1) + 1,
           Len(symbol) - Len(<<"<", "/", "s", "y", "m", "b", "o", "l", ">", "\n">>))

\* C19: the sprite holds one symbol per input file, and the symbol of a file
\* whose text is an outer svg element holds all of the markup between the
\* outer opening tag and its closing tag, a nested svg element included.
C19_SymbolPerFile ==
    (variant = "sprite" /\ written)
        => /\ Len(symbols) = Len(files)
           /\ \A n \in 1..Len(files) :
                LET text == contents[files[n]]
                IN  (HasOuterSvg(text) /\ Balanced(OuterBody(text)))
                        => SymbolContent(symbols[n]) = OuterBody(text)

\* a text in the quote style of the output of ultraOptimizeSVG
SingleQuoted(a) == [k \in 1..Len(a) |-> IF a[k] = "\"" THEN "'" ELSE a[k]]

\* attributes whose names end in 'opacity' without being opacity
OpacityNamed ==
    { <<"s", "t", "o", "p", "-">> \o LitOpacity,
      <<"f", "l", "o", "o", "d", "-">> \o LitOpacity }

\* an attribute whose name ends in 'id' without being id
IdNamed == { <<"d", "a", "t", "a", "-">> \o LitId \o <<"a", "\"">> }

\* the attribute a of the input stands in the output, in either quote style
AttrKept(a) ==
    (Contains(svgContent, a) \/ Contains(svgContent, SingleQuoted(a)))
        => (Contains(optimized, a) \/ Contains(optimized, SingleQuoted(a)))

\* C21: the attribute removals delete only attributes of exactly the
\* targeted name: stop-opacity="1" and flood-opacity="1" pass both
\* optimizers unchanged, and an attribute whose name ends in 'id' passes
\* ultraOptimizeSVG unchanged.
C21_OnlyWholeAttrs ==
    (pc = "optimized" /\ variant \in Optimizers)
        => /\ \A a \in OpacityNamed : AttrKept(a)
           /\ variant = "ultra" => \A a \in IdNamed : AttrKept(a)

\* C22: when a page has run the output file, EMOJI_DATA holds, for every
\* file that was processed, exactly the data URI computed for it under
\* exactly its key, also when the text or the name of the file holds a
\* backslash, a single quote, a backtick or '$'.
C22_LiteralsEvaluate ==
    (variant \in Variants /\ at \in {"page", "page error"})
        => /\ at = "page"
           /\ loaded = outputEntries

=============================================================================
